---- MODULE Spec2Model ----
(***************************************************************************)
(* A model of libchess (python-chess, C++ core): the Position value with   *)
(* its 0x88 board, the attacker enumerator, the pseudo-legal and legal     *)
(* move generators, the unvalidated and validated move appliers, the game  *)
(* state predicates, the field setters and FEN rendering / parsing.        *)
(*                                                                         *)
(* Characters are one-character strings; the character 0 (null piece       *)
(* symbol, "no promotion", "no en-passant file") is the empty string.      *)
(***************************************************************************)
EXTENDS Integers, Sequences, FiniteSets, TLC

\* ------------------------------------------------------------------------
\* Bounds of the exploration.
\* ------------------------------------------------------------------------

\* Number of successful calls explored on a Position loaded from a FEN string.
MaxMoves == 2

\* ------------------------------------------------------------------------
\* Piece (src/libchess/src/piece.cc)
\* ------------------------------------------------------------------------

NullSymbol == ""

WhiteSymbols == {"P", "N", "B", "R", "Q", "K"}
BlackSymbols == {"p", "n", "b", "r", "q", "k"}

tolower(c) ==
    CASE c = "P" -> "p" [] c = "N" -> "n" [] c = "B" -> "b"
      [] c = "R" -> "r" [] c = "Q" -> "q" [] c = "K" -> "k"
      [] OTHER -> c

toupper(c) ==
    CASE c = "p" -> "P" [] c = "n" -> "N" [] c = "b" -> "B"
      [] c = "r" -> "R" [] c = "q" -> "Q" [] c = "k" -> "K"
      [] OTHER -> c

Piece_is_valid(piece) == piece # NullSymbol

Piece_color(piece) == IF piece = toupper(piece) THEN "w" ELSE "b"

Piece_type(piece) == tolower(piece)

from_color_and_type(color, type) ==
    IF color = "w" THEN toupper(type) ELSE tolower(type)

opposite_color(color) == IF color = "w" THEN "b" ELSE "w"

\* ------------------------------------------------------------------------
\* Square (src/libchess/src/square.cc): an index 0..63, 64 is the null square.
\* ------------------------------------------------------------------------

NullSquare == 64

Square(rank, file) == rank * 8 + file

Square_rank(square) == square \div 8

Square_file(square) == square % 8

x88_index(square) == Square_file(square) + 16 * (7 - Square_rank(square))

\* (i & 0x88) != 0 on a two's complement int.
Has0x88(i) == ((i % 256) \div 128 = 1) \/ ((i % 16) \div 8 = 1)

from_x88_index(x88) == Square(7 - (x88 \div 16), x88 % 8)

FileNames == <<"a", "b", "c", "d", "e", "f", "g", "h">>
RankNames == <<"1", "2", "3", "4", "5", "6", "7", "8">>

file_name(square) == FileNames[Square_file(square) + 1]

Square_name(square) == <<file_name(square), RankNames[Square_rank(square) + 1]>>

is_backrank(square) == Square_rank(square) = 0 \/ Square_rank(square) = 7

Square_is_valid(square) == square # NullSquare

\* Position of character c in the sequence names, counted from 0; -1 if absent.
IndexOf(names, c) ==
    IF \E i \in 1..Len(names) : names[i] = c
    THEN (CHOOSE i \in 1..Len(names) : names[i] = c) - 1
    ELSE -1

\* Mutation: rank and file change places in the index.
SquareOfName_transposed(name) ==
    IF Len(name) # 2 THEN [err |-> "name", square |-> NullSquare]
    ELSE LET Made(file, rank) ==
                 IF file < 0 \/ rank < 0
                 THEN [err |-> "name", square |-> NullSquare]
                 ELSE [err |-> "", square |-> file * 8 + rank]
         IN  Made(IndexOf(FileNames, name[1]), IndexOf(RankNames, name[2]))

\* Square::Square(const std::string& name): [err, square].
SquareOfName(name) ==
    IF Len(name) # 2 THEN [err |-> "name", square |-> NullSquare]
    ELSE LET Made(file, rank) ==
                 IF file < 0 \/ rank < 0
                 THEN [err |-> "name", square |-> NullSquare]
                 ELSE [err |-> "", square |-> rank * 8 + file]
         IN  Made(IndexOf(FileNames, name[1]), IndexOf(RankNames, name[2]))

\* ------------------------------------------------------------------------
\* Move (src/libchess/move.cpp)
\* ------------------------------------------------------------------------

Move(source, target) == [source |-> source, target |-> target, promotion |-> ""]

MoveP(source, target, promotion) ==
    [source |-> source, target |-> target, promotion |-> promotion]

\* Move::Move(std::string uci): [err, move].  A string of length 4 leaves
\* m_promotion without a value; indeterminate is the char read from it later.
Move_from_uci(uci, indeterminate) ==
    IF Len(uci) = 4 \/ Len(uci) = 5
    THEN LET Made(source, target) ==
                 IF source.err # ""
                 THEN [err |-> source.err, move |-> Move(NullSquare, NullSquare)]
                 ELSE IF target.err # ""
                 THEN [err |-> target.err, move |-> Move(NullSquare, NullSquare)]
                 ELSE IF Len(uci) = 5
                 THEN IF uci[5] \in {"r", "n", "b", "q"}
                      THEN [err |-> "", move |-> MoveP(source.square, target.square, uci[5])]
                      ELSE [err |-> "uci", move |-> Move(NullSquare, NullSquare)]
                 ELSE [err |-> "",
                       move |-> MoveP(source.square, target.square, indeterminate)]
         IN  Made(SquareOfName(SubSeq(uci, 1, 2)), SquareOfName(SubSeq(uci, 3, 4)))
    ELSE [err |-> "uci", move |-> Move(NullSquare, NullSquare)]

\* Move::uci.
Move_uci(move) ==
    IF move.promotion # ""
    THEN Square_name(move.source) \o Square_name(move.target) \o <<move.promotion>>
    ELSE Square_name(move.source) \o Square_name(move.target)

\* ------------------------------------------------------------------------
\* Position (src/libchess/position.cc): a value
\*   [board, turn, ep_file, half_moves, ply, four castling flags].
\* ------------------------------------------------------------------------

get(p, square) == p.board[x88_index(square)]

set(p, square, piece) == [p EXCEPT !.board[x88_index(square)] = piece]

toggle_turn(p) == [p EXCEPT !.turn = IF p.turn = "w" THEN "b" ELSE "w"]

FileOfLetter(c) ==
    CASE c = "a" -> 0 [] c = "b" -> 1 [] c = "c" -> 2 [] c = "d" -> 3
      [] c = "e" -> 4 [] c = "f" -> 5 [] c = "g" -> 6 [] c = "h" -> 7

get_ep_square(p) ==
    IF p.ep_file # ""
    THEN LET rank == IF p.turn = "b" THEN 2 ELSE 5
             pawn_rank == IF p.turn = "b" THEN 3 ELSE 4
             file == FileOfLetter(p.ep_file)
             square == Square(rank, file)
             pawn_square_piece == get(p, Square(pawn_rank, file))
         IN  IF Piece_is_valid(get(p, square)) THEN NullSquare
             ELSE IF ~Piece_is_valid(pawn_square_piece) THEN NullSquare
             ELSE IF Piece_type(pawn_square_piece) # "p" THEN NullSquare
             ELSE square
    ELSE NullSquare

\* The first slot (in index order) holding the king, or the null square.
get_king(p, color) ==
    LET king == from_color_and_type(color, "k")
        found == {i \in 0..127 : p.board[i] = king}
    IN  IF found = {} THEN NullSquare
        ELSE from_x88_index(CHOOSE i \in found : \A j \in found : i <= j)

has_kingside_castling_right(p, color) ==
    IF color = "w" THEN p.white_castle_kingside ELSE p.black_castle_kingside

has_queenside_castling_right(p, color) ==
    IF color = "w" THEN p.white_castle_queenside ELSE p.black_castle_queenside

could_have_kingside_castling_right(p, color) ==
    LET rank == IF color = "w" THEN 0 ELSE 7
    IN  /\ get(p, Square(rank, 4)) = from_color_and_type(color, "k")
        /\ get(p, Square(rank, 7)) = from_color_and_type(color, "r")

could_have_queenside_castling_right(p, color) ==
    LET rank == IF color = "w" THEN 0 ELSE 7
    IN  /\ get(p, Square(rank, 4)) = from_color_and_type(color, "k")
        /\ get(p, Square(rank, 0)) = from_color_and_type(color, "r")

\* ------------------------------------------------------------------------
\* AttackerGenerator (src/libchess/src/attacker_generator.cc)
\* ------------------------------------------------------------------------

\* Indexed by (source.x88 - target.x88 + 119) + 1.
attacks == <<
    20, 0, 0, 0, 0, 0, 0, 24, 0, 0, 0, 0, 0, 0, 20, 0,
    0, 20, 0, 0, 0, 0, 0, 24, 0, 0, 0, 0, 0, 20, 0, 0,
    0, 0, 20, 0, 0, 0, 0, 24, 0, 0, 0, 0, 20, 0, 0, 0,
    0, 0, 0, 20, 0, 0, 0, 24, 0, 0, 0, 20, 0, 0, 0, 0,
    0, 0, 0, 0, 20, 0, 0, 24, 0, 0, 20, 0, 0, 0, 0, 0,
    0, 0, 0, 0, 0, 20, 2, 24, 2, 20, 0, 0, 0, 0, 0, 0,
    0, 0, 0, 0, 0, 2, 53, 56, 53, 2, 0, 0, 0, 0, 0, 0,
    24, 24, 24, 24, 24, 24, 56, 0, 56, 24, 24, 24, 24, 24, 24, 0,
    0, 0, 0, 0, 0, 2, 53, 56, 53, 2, 0, 0, 0, 0, 0, 0,
    0, 0, 0, 0, 0, 20, 2, 24, 2, 20, 0, 0, 0, 0, 0, 0,
    0, 0, 0, 0, 20, 0, 0, 24, 0, 0, 20, 0, 0, 0, 0, 0,
    0, 0, 0, 20, 0, 0, 0, 24, 0, 0, 0, 20, 0, 0, 0, 0,
    0, 0, 20, 0, 0, 0, 0, 24, 0, 0, 0, 0, 20, 0, 0, 0,
    0, 20, 0, 0, 0, 0, 0, 24, 0, 0, 0, 0, 0, 20, 0, 0,
    20, 0, 0, 0, 0, 0, 0, 24, 0, 0, 0, 0, 0, 0, 20 >>

rays == <<
    17, 0, 0, 0, 0, 0, 0, 16, 0, 0, 0, 0, 0, 0, 15, 0,
    0, 17, 0, 0, 0, 0, 0, 16, 0, 0, 0, 0, 0, 15, 0, 0,
    0, 0, 17, 0, 0, 0, 0, 16, 0, 0, 0, 0, 15, 0, 0, 0,
    0, 0, 0, 17, 0, 0, 0, 16, 0, 0, 0, 15, 0, 0, 0, 0,
    0, 0, 0, 0, 17, 0, 0, 16, 0, 0, 15, 0, 0, 0, 0, 0,
    0, 0, 0, 0, 0, 17, 0, 16, 0, 15, 0, 0, 0, 0, 0, 0,
    0, 0, 0, 0, 0, 0, 17, 16, 15, 0, 0, 0, 0, 0, 0, 0,
    1, 1, 1, 1, 1, 1, 1, 0, -1, -1, -1, -1, -1, -1, -1, 0,
    0, 0, 0, 0, 0, 0, -15, -16, -17, 0, 0, 0, 0, 0, 0, 0,
    0, 0, 0, 0, 0, -15, 0, -16, 0, -17, 0, 0, 0, 0, 0, 0,
    0, 0, 0, 0, -15, 0, 0, -16, 0, 0, -17, 0, 0, 0, 0, 0,
    0, 0, 0, -15, 0, 0, 0, -16, 0, 0, 0, -17, 0, 0, 0, 0,
    0, 0, -15, 0, 0, 0, 0, -16, 0, 0, 0, 0, -17, 0, 0, 0,
    0, -15, 0, 0, 0, 0, 0, -16, 0, 0, 0, 0, 0, -17, 0, 0,
    -15, 0, 0, 0, 0, 0, 0, -16, 0, 0, 0, 0, 0, 0, -17 >>

\* (attacks[index] & (1 << shift)) != 0
BitSet(mask, shift) == (mask \div (2 ^ shift)) % 2 = 1

\* Mutation: bishops and rooks test each other's bit of the attack mask.
PieceShift_bishop_rook_swapped(type) ==
    CASE type = "p" -> 0 [] type = "n" -> 1 [] type = "b" -> 3
      [] type = "r" -> 2 [] type = "q" -> 4 [] type = "k" -> 5

PieceShift(type) ==
    CASE type = "p" -> 0 [] type = "n" -> 1 [] type = "b" -> 2
      [] type = "r" -> 3 [] type = "q" -> 4 [] type = "k" -> 5

\* The walk of the slider from source towards the target: TRUE iff some
\* square strictly between them is occupied.
RECURSIVE RayBlocked(_, _, _, _)
RayBlocked(p, j, offset, target_x88) ==
    IF j = target_x88 THEN FALSE
    ELSE Piece_is_valid(get(p, from_x88_index(j)))
            \/ RayBlocked(p, j + offset, offset, target_x88)

Attacker_contains(p, color, target, source) ==
    LET piece == get(p, source)
    IN  IF ~Piece_is_valid(piece) \/ Piece_color(piece) # color THEN FALSE
        ELSE LET difference == x88_index(source) - x88_index(target)
                 index == difference + 119
             IN  IF BitSet(attacks[index + 1], PieceShift(Piece_type(piece)))
                 THEN IF Piece_type(piece) = "p"
                      THEN IF difference > 0 THEN Piece_color(piece) = "w"
                                             ELSE Piece_color(piece) = "b"
                      ELSE IF Piece_type(piece) \in {"n", "k"} THEN TRUE
                      ELSE ~RayBlocked(p, x88_index(source) + rays[index + 1],
                                       rays[index + 1], x88_index(target))
                 ELSE FALSE

Attacker_nonzero(p, color, target) ==
    \E index \in 0..63 : Attacker_contains(p, color, target, index)

is_king_attacked(p, color) ==
    Attacker_nonzero(p, opposite_color(color), get_king(p, color))

is_check(p) == is_king_attacked(p, p.turn)

\* ------------------------------------------------------------------------
\* PseudoLegalMoveGenerator (src/libchess/pseudo_legal_move_generator.cpp)
\* ------------------------------------------------------------------------

\* Mutation: the queen promotion is pushed first.
PromotionMoves_queen_first(square, target) ==
    << MoveP(square, target, "q"), MoveP(square, target, "r"),
       MoveP(square, target, "n"), MoveP(square, target, "b") >>

\* The four promotion variants pushed for a pawn arriving on a back rank.
PromotionMoves(square, target) ==
    << MoveP(square, target, "b"), MoveP(square, target, "n"),
       MoveP(square, target, "r"), MoveP(square, target, "q") >>

\* Pawn moves: single and double steps forward.
PawnPushes(p, square) ==
    LET target == from_x88_index(
            x88_index(square) + (IF p.turn = "b" THEN 16 ELSE -16))
    IN  IF ~Piece_is_valid(get(p, target))
        THEN IF is_backrank(target) THEN PromotionMoves(square, target)
             ELSE <<Move(square, target)>> \o
                  (IF (p.turn = "w" /\ Square_rank(square) = 1) \/
                      (p.turn = "b" /\ Square_rank(square) = 6)
                   THEN LET target2 == from_x88_index(
                               x88_index(square) + (IF p.turn = "b" THEN 32 ELSE -32))
                        IN  IF ~Piece_is_valid(get(p, target2))
                            THEN <<Move(square, target2)>> ELSE <<>>
                   ELSE <<>>)
        ELSE <<>>

\* Pawn captures towards one diagonal (offsets[i] = o), en-passant included.
PawnCapture(p, square, o) ==
    LET offset == IF p.turn = "b" THEN o ELSE -o
        target_index == x88_index(square) + offset
    IN  IF Has0x88(target_index) THEN <<>>
        ELSE LET target == from_x88_index(target_index)
                 target_piece == get(p, target)
             IN  IF Piece_is_valid(target_piece) /\ Piece_color(target_piece) # p.turn
                 THEN IF is_backrank(target) THEN PromotionMoves(square, target)
                      ELSE <<Move(square, target)>>
                 ELSE IF target = get_ep_square(p) THEN <<Move(square, target)>>
                 ELSE <<>>

PieceOffsets(type) ==
    CASE type = "n" -> <<-18, -33, -31, -14, 18, 33, 31, 14>>
      [] type = "b" -> <<-17, -15, 17, 15>>
      [] type = "r" -> <<-16, 1, 16, -1>>
      [] type = "q" -> <<-17, -16, -15, 1, 17, 16, 15, -1>>
      [] type = "k" -> <<-17, -16, -15, 1, 17, 16, 15, -1>>

\* The inner while (true) loop: the moves along one offset, starting from
\* the x88 index reached so far.
RECURSIVE Slide(_, _, _, _, _)
Slide(p, square, piece, from_index, offset) ==
    LET target_index == from_index + offset
    IN  IF Has0x88(target_index) THEN <<>>
        ELSE LET target == from_x88_index(target_index)
                 target_piece == get(p, target)
             IN  IF Piece_is_valid(target_piece)
                 THEN IF Piece_color(target_piece) # p.turn
                      THEN <<Move(square, target)>> ELSE <<>>
                 ELSE <<Move(square, target)>> \o
                      (IF Piece_type(piece) \in {"k", "n"} THEN <<>>
                       ELSE Slide(p, square, piece, target_index, offset))

RECURSIVE PieceMoves(_, _, _, _)
PieceMoves(p, square, piece, i) ==
    LET offsets == PieceOffsets(Piece_type(piece))
    IN  IF i > Len(offsets) THEN <<>>
        ELSE Slide(p, square, piece, x88_index(square), offsets[i])
                \o PieceMoves(p, square, piece, i + 1)

KingsideCastling(p) ==
    LET backrank == IF p.turn = "b" THEN 7 ELSE 0
        bishop_square == Square(backrank, 5)
        knight_square == Square(backrank, 6)
    IN  IF /\ has_kingside_castling_right(p, p.turn)
           /\ ~Piece_is_valid(get(p, bishop_square))
           /\ ~Piece_is_valid(get(p, knight_square))
           /\ ~Attacker_nonzero(p, opposite_color(p.turn), bishop_square)
        THEN <<Move(Square(backrank, 4), knight_square)>>
        ELSE <<>>

\* Line 164 of the source reads m_position>turn(); the attackers' colour is
\* taken as in the king-side branch, the opponent of the side to move.
QueensideCastling(p) ==
    LET backrank == IF p.turn = "b" THEN 7 ELSE 0
        knight_square == Square(backrank, 1)
        bishop_square == Square(backrank, 2)
        queen_square == Square(backrank, 3)
    IN  IF /\ has_queenside_castling_right(p, p.turn)
           /\ ~Piece_is_valid(get(p, knight_square))
           /\ ~Piece_is_valid(get(p, bishop_square))
           /\ ~Piece_is_valid(get(p, queen_square))
           /\ ~Attacker_nonzero(p, opposite_color(p.turn), queen_square)
        THEN <<Move(Square(backrank, 4), bishop_square)>>
        ELSE <<>>

\* The moves generate_from_square pushes onto m_cache, in push order.
generate_from_square(p, square) ==
    LET piece == get(p, square)
    IN  IF ~Piece_is_valid(piece) \/ Piece_color(piece) # p.turn THEN <<>>
        ELSE IF Piece_type(piece) = "p"
             THEN PawnPushes(p, square) \o PawnCapture(p, square, 17)
                                        \o PawnCapture(p, square, 15)
             ELSE PieceMoves(p, square, piece, 1) \o
                  (IF Piece_type(piece) = "k"
                   THEN KingsideCastling(p) \o QueensideCastling(p)
                   ELSE <<>>)

\* A PseudoLegalMoveGenerator object is [index, cache]; its position is the
\* copy taken at construction and is passed along as p.
PseudoLegalMoveGenerator == [index |-> 0, cache |-> <<>>]

\* Mutation: the rewind leaves the cached moves in the queue.
Pseudo_iter_keeps_cache(g) == [g EXCEPT !.index = 0]

Pseudo_iter(g) == [index |-> 0, cache |-> <<>>]

\* The squares from index on for which generate_from_square does not return
\* at once: those holding a piece of the side to move.
OwnSquaresFrom(p, index) ==
    {square \in index..63 : /\ Piece_is_valid(get(p, square))
                            /\ Piece_color(get(p, square)) = p.turn}

\* The while loop of has_more: generate square after square until the cache
\* holds a move or the squares are used up.  Squares that are empty or hold
\* a piece of the opponent add nothing and are passed over in one step.
RECURSIVE Pseudo_fill(_, _)
Pseudo_fill(p, g) ==
    IF g.index < 64 /\ g.cache = <<>>
    THEN LET own == OwnSquaresFrom(p, g.index)
             Generate(square) ==
                 Pseudo_fill(p, [index |-> square + 1,
                                 cache |-> generate_from_square(p, square)])
         IN  IF own = {} THEN [index |-> 64, cache |-> <<>>]
             ELSE Generate(CHOOSE square \in own : \A other \in own : square <= other)
    ELSE g

\* has_more: [gen, result].
Pseudo_has_more(p, g) ==
    LET Filled(h) == [gen |-> h, result |-> h.cache # <<>>]
    IN  Filled(Pseudo_fill(p, g))

\* next: [err, move, gen]; err = "logic_error" when there are no more moves.
Pseudo_next(p, g) ==
    LET Pop(h) ==
            IF h.result
            THEN [err |-> "", move |-> Head(h.gen.cache),
                  gen |-> [h.gen EXCEPT !.cache = Tail(h.gen.cache)]]
            ELSE [err |-> "logic_error", move |-> Move(NullSquare, NullSquare),
                  gen |-> h.gen]
    IN  Pop(Pseudo_has_more(p, g))

\* __contains__ on a generator whose cache is g.cache.
Pseudo_contains(p, g, move) ==
    LET Find(cache) == \E i \in 1..Len(cache) : cache[i] = move
    IN  Find(g.cache \o generate_from_square(p, move.source))

\* __contains__: [gen, result]; the moves of move.source are pushed behind
\* the cache, which is popped up to and including the first match.
RECURSIVE PopUntil(_, _)
PopUntil(cache, move) ==
    IF cache = <<>> THEN [cache |-> <<>>, result |-> FALSE]
    ELSE IF Head(cache) = move THEN [cache |-> Tail(cache), result |-> TRUE]
    ELSE PopUntil(Tail(cache), move)

Pseudo_contains_pop(p, g, move) ==
    LET Popped(r) == [gen |-> [g EXCEPT !.cache = r.cache], result |-> r.result]
    IN  Popped(PopUntil(g.cache \o generate_from_square(p, move.source), move))

\* __nonzero__: [gen, result]; squares are generated from a local index, the
\* moves are pushed behind the cache until it is not empty.
RECURSIVE NonzeroFill(_, _, _)
NonzeroFill(p, cache, index) ==
    LET own == OwnSquaresFrom(p, index)
        Pushed(c, square) == IF c # <<>> THEN c ELSE NonzeroFill(p, c, square + 1)
        Generate(square) == Pushed(cache \o generate_from_square(p, square), square)
    IN  IF index >= 64 THEN cache
        ELSE IF cache # <<>> THEN cache \o generate_from_square(p, index)
        ELSE IF own = {} THEN cache
        ELSE Generate(CHOOSE square \in own : \A other \in own : square <= other)

Pseudo_nonzero(p, g) ==
    LET Filled(c) == [gen |-> [g EXCEPT !.cache = c], result |-> c # <<>>]
    IN  Filled(NonzeroFill(p, g.cache, 0))

\* The moves of squares index..63 in generation order.
RECURSIVE GenerateAll(_, _)
GenerateAll(p, index) ==
    LET own == OwnSquaresFrom(p, index)
        Generate(square) ==
            generate_from_square(p, square) \o GenerateAll(p, square + 1)
    IN  IF own = {} THEN <<>>
        ELSE Generate(CHOOSE square \in own : \A other \in own : square <= other)

\* __len__: [gen, result]; the cache is cleared, then filled with every move.
Pseudo_len(p, g) ==
    LET Filled(all) == [gen |-> [g EXCEPT !.cache = all], result |-> Len(all)]
    IN  Filled(GenerateAll(p, 0))

\* The first index of `moves` satisfying Test, or Len(moves) + 1.
FirstIndex(moves, Test(_)) ==
    IF \E i \in 1..Len(moves) : Test(moves[i])
    THEN CHOOSE i \in 1..Len(moves) :
             Test(moves[i]) /\ \A j \in 1..(i - 1) : ~Test(moves[j])
    ELSE Len(moves) + 1

\* The states in which the has_more loop returns TRUE when the queue is
\* emptied after each return: the generator itself if it holds moves, then
\* one state per square from m_index on that yields moves.
PseudoFills(p, g) ==
    LET Moves(square) == generate_from_square(p, square)
        Nth(squares, k) ==
            CHOOSE square \in squares :
                Cardinality({other \in squares : other < square}) = k - 1
        Filled(square) == [index |-> square + 1, cache |-> Moves(square)]
        Later(squares) ==
            <<>> \o [k \in 1..Cardinality(squares) |-> Filled(Nth(squares, k))]
    IN  (IF g.cache # <<>> THEN <<g>> ELSE <<>>)
            \o Later({square \in OwnSquaresFrom(p, g.index) : Moves(square) # <<>>})

\* The state in which the has_more loop returns FALSE.
PseudoExhausted == [index |-> 64, cache |-> <<>>]

\* The moves of the queues fills[k], fills[k + 1], ... in order.
RECURSIVE QueuedFrom(_, _)
QueuedFrom(fills, k) ==
    IF k > Len(fills) THEN <<>> ELSE fills[k].cache \o QueuedFrom(fills, k + 1)

\* while (g.has_more()) { yield g.next(); }
DrainPseudo(p, g) == QueuedFrom(PseudoFills(p, g), 1)

PseudoLegalMoves(p) == DrainPseudo(p, Pseudo_iter(PseudoLegalMoveGenerator))

\* ------------------------------------------------------------------------
\* MoveInfo (src/libchess/src/move_info.cc) and the unvalidated applier
\* ------------------------------------------------------------------------

MoveInfo(move, piece) ==
    [move |-> move, piece |-> piece, captured |-> NullSymbol,
     is_enpassant |-> FALSE, is_kingside_castle |-> FALSE,
     is_queenside_castle |-> FALSE, is_check |-> FALSE, is_checkmate |-> FALSE,
     san |-> <<>>]

abs(x) == IF x < 0 THEN -x ELSE x

\* Steps of make_unvalidated_move_fast, each on the [pos, info] pair left by
\* the previous one.  piece is the mover fetched at the start.

MovePieceStep(p, move, piece) ==
    LET info == [MoveInfo(move, piece) EXCEPT !.captured = get(p, move.target)]
        p1 == set(p, move.target, get(p, move.source))
        p2 == set(p1, move.source, NullSymbol)
    IN  [pos |-> toggle_turn(p2), info |-> info]

\* Mutation: the en-passant victim is looked for on the wrong rank.
PawnStep_wrong_rank(s, move, piece) ==
    LET p0 == [s.pos EXCEPT !.ep_file = ""]
    IN  IF Piece_type(piece) = "p"
        THEN LET enpassant == /\ Square_file(move.target) # Square_file(move.source)
                              /\ ~Piece_is_valid(s.info.captured)
                 capture_square_index ==
                     IF p0.turn = "b"
                     THEN x88_index(Square(3, Square_file(move.target)))
                     ELSE x88_index(Square(4, Square_file(move.target)))
                 info1 == IF enpassant
                          THEN [s.info EXCEPT !.captured = p0.board[capture_square_index],
                                              !.is_enpassant = TRUE]
                          ELSE s.info
                 p1 == IF enpassant
                       THEN [p0 EXCEPT !.board[capture_square_index] = NullSymbol]
                       ELSE p0
                 p2 == IF abs(Square_rank(move.target) - Square_rank(move.source)) = 2
                       THEN [p1 EXCEPT !.ep_file = file_name(move.target)]
                       ELSE p1
             IN  [pos |-> p2, info |-> info1]
        ELSE [pos |-> p0, info |-> s.info]

\* Mutation: m_ep_file is not cleared before the pawn handling.
PawnStep_keeps_ep_file(s, move, piece) ==
    LET p0 == s.pos
    IN  IF Piece_type(piece) = "p"
        THEN LET enpassant == /\ Square_file(move.target) # Square_file(move.source)
                              /\ ~Piece_is_valid(s.info.captured)
                 capture_square_index ==
                     IF p0.turn = "b"
                     THEN x88_index(Square(4, Square_file(move.target)))
                     ELSE x88_index(Square(3, Square_file(move.target)))
                 info1 == IF enpassant
                          THEN [s.info EXCEPT !.captured = p0.board[capture_square_index],
                                              !.is_enpassant = TRUE]
                          ELSE s.info
                 p1 == IF enpassant
                       THEN [p0 EXCEPT !.board[capture_square_index] = NullSymbol]
                       ELSE p0
                 p2 == IF abs(Square_rank(move.target) - Square_rank(move.source)) = 2
                       THEN [p1 EXCEPT !.ep_file = file_name(move.target)]
                       ELSE p1
             IN  [pos |-> p2, info |-> info1]
        ELSE [pos |-> p0, info |-> s.info]

PawnStep(s, move, piece) ==
    LET p0 == [s.pos EXCEPT !.ep_file = ""]
    IN  IF Piece_type(piece) = "p"
        THEN LET enpassant == /\ Square_file(move.target) # Square_file(move.source)
                              /\ ~Piece_is_valid(s.info.captured)
                 capture_square_index ==
                     IF p0.turn = "b"
                     THEN x88_index(Square(4, Square_file(move.target)))
                     ELSE x88_index(Square(3, Square_file(move.target)))
                 info1 == IF enpassant
                          THEN [s.info EXCEPT !.captured = p0.board[capture_square_index],
                                              !.is_enpassant = TRUE]
                          ELSE s.info
                 p1 == IF enpassant
                       THEN [p0 EXCEPT !.board[capture_square_index] = NullSymbol]
                       ELSE p0
                 p2 == IF abs(Square_rank(move.target) - Square_rank(move.source)) = 2
                       THEN [p1 EXCEPT !.ep_file = file_name(move.target)]
                       ELSE p1
             IN  [pos |-> p2, info |-> info1]
        ELSE [pos |-> p0, info |-> s.info]

PromotionStep(s, move, piece) ==
    IF move.promotion # ""
    THEN [s EXCEPT !.pos = set(s.pos, move.target,
                               from_color_and_type(Piece_color(piece), move.promotion))]
    ELSE s

\* Mutation: the rook's new square receives the piece on the king's new square.
CastlingStep_king_copied(s, move, piece) ==
    IF Piece_type(piece) = "k"
    THEN LET steps == Square_file(move.target) - Square_file(move.source)
             backrank == IF s.pos.turn = "b" THEN 0 ELSE 7
         IN  IF steps = 2
             THEN [pos |-> set(set(s.pos, Square(backrank, 5), get(s.pos, Square(backrank, 6))),
                               Square(backrank, 7), NullSymbol),
                   info |-> [s.info EXCEPT !.is_kingside_castle = TRUE]]
             ELSE IF steps = -2
             THEN [pos |-> set(set(s.pos, Square(backrank, 3), get(s.pos, Square(backrank, 2))),
                               Square(backrank, 0), NullSymbol),
                   info |-> [s.info EXCEPT !.is_queenside_castle = TRUE]]
             ELSE s
    ELSE s

CastlingStep(s, move, piece) ==
    IF Piece_type(piece) = "k"
    THEN LET steps == Square_file(move.target) - Square_file(move.source)
             backrank == IF s.pos.turn = "b" THEN 0 ELSE 7
         IN  IF steps = 2
             THEN [pos |-> set(set(s.pos, Square(backrank, 5), get(s.pos, Square(backrank, 7))),
                               Square(backrank, 7), NullSymbol),
                   info |-> [s.info EXCEPT !.is_kingside_castle = TRUE]]
             ELSE IF steps = -2
             THEN [pos |-> set(set(s.pos, Square(backrank, 3), get(s.pos, Square(backrank, 0))),
                               Square(backrank, 0), NullSymbol),
                   info |-> [s.info EXCEPT !.is_queenside_castle = TRUE]]
             ELSE s
    ELSE s

\* Mutation: the move number is incremented after a move of White.
CountersStep_after_white(s, piece) ==
    LET p1 == IF Piece_type(piece) = "p" \/ Piece_is_valid(s.info.captured)
              THEN [s.pos EXCEPT !.half_moves = 0]
              ELSE [s.pos EXCEPT !.half_moves = @ + 1]
        p2 == IF p1.turn = "b" THEN [p1 EXCEPT !.ply = @ + 1] ELSE p1
    IN  [s EXCEPT !.pos = p2]

CountersStep(s, piece) ==
    LET p1 == IF Piece_type(piece) = "p" \/ Piece_is_valid(s.info.captured)
              THEN [s.pos EXCEPT !.half_moves = 0]
              ELSE [s.pos EXCEPT !.half_moves = @ + 1]
        p2 == IF p1.turn = "w" THEN [p1 EXCEPT !.ply = @ + 1] ELSE p1
    IN  [s EXCEPT !.pos = p2]

CastlingRightsStep(s) ==
    LET p == s.pos
    IN  [s EXCEPT !.pos =
            IF p.turn = "w"
            THEN [p EXCEPT
                   !.black_castle_kingside =
                       p.black_castle_kingside /\ could_have_kingside_castling_right(p, "b"),
                   !.black_castle_queenside =
                       p.black_castle_queenside /\ could_have_queenside_castling_right(p, "b")]
            ELSE [p EXCEPT
                   !.white_castle_kingside =
                       p.white_castle_kingside /\ could_have_kingside_castling_right(p, "w"),
                   !.white_castle_queenside =
                       p.white_castle_queenside /\ could_have_queenside_castling_right(p, "w")]]

\* Result: [err, pos, info]; err = "move" when the source square is empty
\* (nothing has been changed then).
make_unvalidated_move_fast(p, move) ==
    LET piece == get(p, move.source)
    IN  IF ~Piece_is_valid(piece)
        THEN [err |-> "move", pos |-> p, info |-> MoveInfo(move, piece)]
        ELSE LET Done(s) == [err |-> "", pos |-> s.pos, info |-> s.info]
             IN  Done(CastlingRightsStep(CountersStep(CastlingStep(PromotionStep(
                          PawnStep(MovePieceStep(p, move, piece), move, piece),
                          move, piece), move, piece), piece)))

\* ------------------------------------------------------------------------
\* LegalMoveGenerator (src/libchess/legal_move_generator.cc)
\* An object is [len, current, pl] where pl is its PseudoLegalMoveGenerator;
\* the position p is the copy taken at construction.
\* ------------------------------------------------------------------------

LegalMoveGenerator == [len |-> -1, current |-> 0, pl |-> PseudoLegalMoveGenerator]

\* Mutation: the test looks at the king of the side to move after the move.
would_be_valid_wrong_king(p, move) ==
    ~is_check(make_unvalidated_move_fast(p, move).pos)

would_be_valid_if_pseudo_legal(p, move) ==
    ~is_king_attacked(make_unvalidated_move_fast(p, move).pos, p.turn)

\* would_be_valid_if_pseudo_legal does not return: the applier throws
\* "move" on the copy of the position.
would_be_valid_throws(p, move) == make_unvalidated_move_fast(p, move).err # ""

\* The counting loop of __len__: [err, counter, pl]; the counter when the
\* generator is exhausted, or err = "move" and the generator as left by the
\* exception.  The moves has_more puts in the queue are popped and counted
\* when valid, up to the first whose validation throws.
LenLoop(p, g, counter) ==
    LET Throws(move) == would_be_valid_throws(p, move)
        Valid(move) == would_be_valid_if_pseudo_legal(p, move)
        Bad(h) == FirstIndex(h.cache, Throws)
        Stops(h) == Bad(h) <= Len(h.cache)
        ValidIn(h, n) == {i \in 1..n : Valid(h.cache[i])}
        Before(fills, stop) ==
            Cardinality(UNION {{<<k, i>> : i \in ValidIn(fills[k], Len(fills[k].cache))} :
                                  k \in 1..(stop - 1)})
        Thrown(h, before) ==
            [err |-> "move",
             counter |-> counter + before + Cardinality(ValidIn(h, Bad(h) - 1)),
             pl |-> [h EXCEPT !.cache = SubSeq(h.cache, Bad(h) + 1, Len(h.cache))]]
        Count(fills, stop) ==
            IF stop <= Len(fills) THEN Thrown(fills[stop], Before(fills, stop))
            ELSE [err |-> "", counter |-> counter + Before(fills, stop),
                  pl |-> PseudoExhausted]
        Loop(fills) == Count(fills, FirstIndex(fills, Stops))
    IN  Loop(PseudoFills(p, g))

\* __len__: [gen, result, err]; no result (0 here) when err is not empty.
Legal_len(p, lg) ==
    IF lg.len = -1
    THEN LET Counted(r) ==
                 IF r.err # ""
                 THEN [gen |-> [lg EXCEPT !.pl = r.pl], result |-> 0, err |-> r.err]
                 ELSE [gen |-> [lg EXCEPT !.len = r.counter, !.pl = Pseudo_iter(lg.pl)],
                       result |-> r.counter, err |-> ""]
         IN  Counted(LenLoop(p, Pseudo_iter(lg.pl), 0))
    ELSE [gen |-> lg, result |-> lg.len, err |-> ""]

\* The loop of __nonzero__: [err, found, pl] where pl is the generator state
\* left.  The moves has_more puts in the queue are popped up to the first
\* that is valid or whose validation throws.
NonzeroLoop(p, g) ==
    LET Stops(move) == \/ would_be_valid_throws(p, move)
                       \/ would_be_valid_if_pseudo_legal(p, move)
        Holds(h) == FirstIndex(h.cache, Stops) <= Len(h.cache)
        Test(h, i) ==
            [err |-> IF would_be_valid_throws(p, h.cache[i]) THEN "move" ELSE "",
             found |-> ~would_be_valid_throws(p, h.cache[i]),
             pl |-> [h EXCEPT !.cache = SubSeq(h.cache, i + 1, Len(h.cache))]]
        Stop(h) == Test(h, FirstIndex(h.cache, Stops))
        Loop(fills, k) == IF k > Len(fills)
                          THEN [err |-> "", found |-> FALSE, pl |-> PseudoExhausted]
                          ELSE Stop(fills[k])
        Scan(fills) == Loop(fills, FirstIndex(fills, Holds))
    IN  Scan(PseudoFills(p, g))

\* __nonzero__: [gen, result, err]; no result (FALSE here) when err is not
\* empty.
Legal_nonzero(p, lg) ==
    IF lg.len = 0 THEN [gen |-> lg, result |-> FALSE, err |-> ""]
    ELSE LET Found(r) ==
                 IF r.err # ""
                 THEN [gen |-> [lg EXCEPT !.pl = r.pl], result |-> FALSE, err |-> r.err]
                 ELSE IF r.found
                 THEN [gen |-> [lg EXCEPT !.pl = r.pl], result |-> TRUE, err |-> ""]
                 ELSE [gen |-> [lg EXCEPT !.pl = r.pl, !.len = 0],
                       result |-> FALSE, err |-> ""]
         IN  Found(NonzeroLoop(p, Pseudo_iter(lg.pl)))

Legal_iter(lg) == [lg EXCEPT !.current = 0, !.pl = Pseudo_iter(lg.pl)]

\* Mutation: membership without the legality test.
Legal_contains_unfiltered(p, lg, move) == Pseudo_contains(p, lg.pl, move)

Legal_contains(p, lg, move) ==
    IF ~Pseudo_contains(p, lg.pl, move) THEN FALSE
    ELSE would_be_valid_if_pseudo_legal(p, move)

\* __contains__ with the generator left: [gen, result, err].
Legal_contains_pop(p, lg, move) ==
    LET Tested(r) ==
            IF ~r.result
            THEN [gen |-> [lg EXCEPT !.pl = r.gen], result |-> FALSE, err |-> ""]
            ELSE IF would_be_valid_throws(p, move)
            THEN [gen |-> [lg EXCEPT !.pl = r.gen], result |-> FALSE, err |-> "move"]
            ELSE [gen |-> [lg EXCEPT !.pl = r.gen],
                  result |-> would_be_valid_if_pseudo_legal(p, move), err |-> ""]
    IN  Tested(Pseudo_contains_pop(p, lg.pl, move))

\* has_more: [gen, result, err]; no result (FALSE here) when __len__ throws.
Legal_has_more(p, lg) ==
    LET Compare(r) == [gen |-> r.gen, result |-> r.err = "" /\ lg.current < r.result,
                       err |-> r.err]
    IN  Compare(Legal_len(p, lg))

\* next: [err, move, gen]; err = "logic_error" when the pseudo-legal generator
\* runs out before a valid move is found, "move" when the validation throws.
\* The moves has_more puts in the queue are popped up to the first that is
\* valid or whose validation throws.
NextLoop(p, lg, g) ==
    LET Stops(move) == \/ would_be_valid_throws(p, move)
                       \/ would_be_valid_if_pseudo_legal(p, move)
        Holds(h) == FirstIndex(h.cache, Stops) <= Len(h.cache)
        Left(h, i) == [h EXCEPT !.cache = SubSeq(h.cache, i + 1, Len(h.cache))]
        Test(h, i) ==
            IF would_be_valid_throws(p, h.cache[i])
            THEN [err |-> "move", move |-> h.cache[i],
                  gen |-> [lg EXCEPT !.pl = Left(h, i)]]
            ELSE [err |-> "", move |-> h.cache[i],
                  gen |-> [lg EXCEPT !.pl = Left(h, i), !.current = @ + 1]]
        Stop(h) == Test(h, FirstIndex(h.cache, Stops))
        Loop(fills, k) ==
            IF k > Len(fills)
            THEN [err |-> "logic_error", move |-> Move(NullSquare, NullSquare),
                  gen |-> [lg EXCEPT !.pl = PseudoExhausted]]
            ELSE Stop(fills[k])
        Scan(fills) == Loop(fills, FirstIndex(fills, Holds))
    IN  Scan(PseudoFills(p, g))

Legal_next(p, lg) == NextLoop(p, lg, lg.pl)

\* lg.__iter__(); while (lg.has_more()) { yield lg.next(); }
\* The first has_more fixes m_len; from then on has_more compares m_current
\* with it, and the next() calls return the valid moves among those the
\* pseudo-legal generator still holds, until m_len is reached, the
\* pseudo-legal generator runs out or a validation throws.
DrainLegal(p, lg) ==
    LET Throws(move) == would_be_valid_throws(p, move)
        Valid(move) == would_be_valid_if_pseudo_legal(p, move)
        Take(valid, want) == SubSeq(valid, 1, IF want < Len(valid) THEN want ELSE Len(valid))
        Yield(rest, want) ==
            Take(SelectSeq(SubSeq(rest, 1, FirstIndex(rest, Throws) - 1), Valid), want)
        Step(h) == IF h.result
                   THEN Yield(DrainPseudo(p, h.gen.pl), h.gen.len - h.gen.current)
                   ELSE <<>>
    IN  Step(Legal_has_more(p, lg))

\* The sequence of moves a fresh iteration of p's legal moves yields.
LegalMoves(p) == DrainLegal(p, Legal_iter(LegalMoveGenerator))

\* ------------------------------------------------------------------------
\* Game state predicates (src/libchess/position.cc)
\* ------------------------------------------------------------------------

is_checkmate(p) ==
    IF ~is_check(p) THEN FALSE
    ELSE ~Legal_nonzero(p, LegalMoveGenerator).result

\* Mutation: the test for check is left out.
is_stalemate_unchecked(p) == ~Legal_nonzero(p, LegalMoveGenerator).result

is_stalemate(p) ==
    IF is_check(p) THEN FALSE
    ELSE ~Legal_nonzero(p, LegalMoveGenerator).result

Square_is_dark(square) == square % 2 = 0

CountSymbol(p, symbols) == Cardinality({i \in 0..127 : p.board[i] \in symbols})

is_insufficient_material(p) ==
    LET piece_count == Cardinality({i \in 0..127 : Piece_is_valid(p.board[i])})
        \* case 'b': white_bishops++, black_bishops--, then falls into case 'B'
        white_bishops == CountSymbol(p, {"b"})
        black_bishops == CountSymbol(p, {"b", "B"}) - CountSymbol(p, {"b"})
        dark_square_bishops ==
            Cardinality({i \in 0..127 : p.board[i] \in {"b", "B"}
                                         /\ Square_is_dark(from_x88_index(i))})
        light_square_bishops ==
            Cardinality({i \in 0..127 : p.board[i] \in {"b", "B"}
                                         /\ ~Square_is_dark(from_x88_index(i))})
    IN  IF CountSymbol(p, {"q", "Q", "p", "P", "r", "R"}) > 0 THEN FALSE
        ELSE IF piece_count = 2 THEN TRUE
        ELSE IF piece_count = 3 THEN TRUE
        ELSE IF piece_count = 2 + white_bishops + black_bishops
             THEN (light_square_bishops > 0 /\ dark_square_bishops = 0)
                  \/ (dark_square_bishops > 0 /\ light_square_bishops = 0)
        ELSE FALSE

is_game_over(p) ==
    IF is_insufficient_material(p) THEN TRUE
    ELSE IF ~Legal_nonzero(p, LegalMoveGenerator).result THEN TRUE
    ELSE FALSE

\* ------------------------------------------------------------------------
\* make_move / make_move_fast (src/libchess/position.cc)
\* Result: [err, pos, info]; on err = "move" pos is the position unchanged.
\* ------------------------------------------------------------------------

\* The disambiguator loop of make_move over ms, the moves legal_moves yields
\* (the generator holds the position before the move); get() reads the board
\* of post, the position after the move.  f = [is_ambigous, same_rank,
\* same_file]; the loop is left once same_rank and same_file are both set.
RECURSIVE Disambiguate(_, _, _, _, _, _)
Disambiguate(post, info, move, ms, i, f) ==
    IF i > Len(ms) \/ (f.same_rank /\ f.same_file) THEN f
    ELSE IF /\ get(post, ms[i].source) = info.piece
            /\ move.source # ms[i].source
            /\ move.target = ms[i].target
         THEN Disambiguate(post, info, move, ms, i + 1,
                  [is_ambigous |-> TRUE,
                   same_rank |-> f.same_rank \/
                       Square_rank(move.source) = Square_rank(ms[i].source),
                   same_file |-> f.same_file \/
                       Square_file(move.source) = Square_file(ms[i].source)])
         ELSE Disambiguate(post, info, move, ms, i + 1, f)

\* The SAN string make_move builds for move, played in p, with result post
\* and info (is_check and is_checkmate already set).
GenerateSan(p, post, info, move) ==
    LET Disambiguator(f) ==
            IF f.same_rank /\ f.same_file THEN Square_name(move.source)
            ELSE IF f.same_file THEN <<RankNames[Square_rank(move.source) + 1]>>
            ELSE IF f.same_rank \/ f.is_ambigous THEN <<file_name(move.source)>>
            ELSE <<>>
        Flags(ms) == Disambiguate(post, info, move, ms, 1,
                         [is_ambigous |-> FALSE, same_rank |-> FALSE,
                          same_file |-> FALSE])
        body ==
            IF info.is_kingside_castle THEN <<"O", "-", "O">>
            ELSE IF info.is_queenside_castle THEN <<"O", "-", "O", "-", "O">>
            ELSE (IF Piece_type(info.piece) # "p"
                  THEN <<toupper(Piece_type(info.piece))>> ELSE <<>>)
                 \o Disambiguator(Flags(LegalMoves(p)))
                 \o (IF Piece_is_valid(info.captured)
                     THEN (IF Piece_type(info.piece) = "p"
                           THEN <<file_name(move.source)>> ELSE <<>>) \o <<"x">>
                     ELSE <<>>)
                 \o Square_name(move.target)
        mark == IF info.is_checkmate THEN <<"#">>
                ELSE IF info.is_check THEN <<"+">> ELSE <<>>
        ep == IF info.is_enpassant
              THEN <<" ", "(", "e", ".", "p", ".", ")">> ELSE <<>>
    IN  body \o mark \o ep

make_move(p, move) ==
    IF ~Legal_contains(p, LegalMoveGenerator, move)
    THEN [err |-> "move", pos |-> p, info |-> MoveInfo(move, NullSymbol)]
    ELSE LET WithSan(r) ==
                 [r EXCEPT !.info.san = GenerateSan(p, r.pos, r.info, move)]
             Annotate(r) ==
                 IF r.err # "" THEN r
                 ELSE WithSan([err |-> "", pos |-> r.pos,
                       info |-> [r.info EXCEPT !.is_check = is_check(r.pos),
                                               !.is_checkmate = is_checkmate(r.pos)]])
         IN  Annotate(make_unvalidated_move_fast(p, move))

\* Mutation: the move is applied without the legality test.
make_move_fast_unvalidated(p, move) == make_unvalidated_move_fast(p, move)

make_move_fast(p, move) ==
    IF ~Legal_contains(p, LegalMoveGenerator, move)
    THEN [err |-> "move", pos |-> p, info |-> MoveInfo(move, NullSymbol)]
    ELSE make_unvalidated_move_fast(p, move)

\* ------------------------------------------------------------------------
\* SAN parsing (src/libchess/position.cc)
\* ------------------------------------------------------------------------

\* boost::regex_match of san against
\*   ^([NBKRQ])?([a-h])?([1-8])?x?([a-h][1-8])(=[NBRQ])?(\+|#)?$
\* The character classes of neighbouring parts are disjoint, so the match is
\* unique: the suffix and the target are read off the end, the prefix in
\* order.  An unmatched group is the empty string "".
SanRegexMatch(san) ==
    LET n == Len(san)
        n1 == IF n >= 1 /\ san[n] \in {"+", "#"} THEN n - 1 ELSE n
        has_promotion == /\ n1 >= 2
                         /\ san[n1 - 1] = "="
                         /\ san[n1] \in {"N", "B", "R", "Q"}
        n2 == IF has_promotion THEN n1 - 2 ELSE n1
        m == n2 - 2
        At(i) == IF i >= 1 /\ i <= m THEN san[i] ELSE ""
        i1 == IF At(1) \in {"N", "B", "K", "R", "Q"} THEN 2 ELSE 1
        i2 == IF IndexOf(FileNames, At(i1)) >= 0 THEN i1 + 1 ELSE i1
        i3 == IF IndexOf(RankNames, At(i2)) >= 0 THEN i2 + 1 ELSE i2
        i4 == IF At(i3) = "x" THEN i3 + 1 ELSE i3
    IN  IF /\ n2 >= 2
           /\ IndexOf(FileNames, san[n2 - 1]) >= 0
           /\ IndexOf(RankNames, san[n2]) >= 0
           /\ i4 = m + 1
        THEN [matched |-> TRUE,
              piece |-> IF i1 > 1 THEN san[1] ELSE "",
              file |-> IF i2 > i1 THEN san[i1] ELSE "",
              rank |-> IF i3 > i2 THEN san[i2] ELSE "",
              target |-> <<san[n2 - 1], san[n2]>>,
              promotion |-> IF has_promotion THEN san[n1] ELSE ""]
        ELSE [matched |-> FALSE, piece |-> "", file |-> "", rank |-> "",
              target |-> <<>>, promotion |-> ""]

\* get_move_from_san: [err, move]; err = "san" when invalid_argument("san")
\* is thrown.
get_move_from_san(p, san) ==
    LET Fail == [err |-> "san", move |-> Move(NullSquare, NullSquare)]
        Castle(move) ==
            IF Legal_contains(p, LegalMoveGenerator, move)
            THEN [err |-> "", move |-> move] ELSE Fail
        Find(g, ms) ==
            LET piece == from_color_and_type(p.turn,
                             IF g.piece = "" THEN "p" ELSE tolower(g.piece))
                target == SquareOfName(g.target).square
                file == IF g.file = "" THEN -1 ELSE IndexOf(FileNames, g.file)
                rank == IF g.rank = "" THEN -1 ELSE IndexOf(RankNames, g.rank)
                promotion == IF g.promotion = "" THEN NullSymbol
                             ELSE tolower(g.promotion)
                hits == {i \in 1..Len(ms) :
                            /\ ms[i].promotion = promotion
                            /\ get(p, ms[i].source) = piece
                            /\ ms[i].target = target
                            /\ (file = -1 \/ file = Square_file(ms[i].source))
                            /\ (rank = -1 \/ rank = Square_rank(ms[i].source))}
                Found(i) == IF promotion # NullSymbol
                            THEN MoveP(ms[i].source, target, promotion)
                            ELSE Move(ms[i].source, target)
            IN  \* a second matching move throws; so does none at all
                IF Cardinality(hits) # 1 THEN Fail
                ELSE [err |-> "", move |-> Found(CHOOSE i \in hits : TRUE)]
        Parse(g) == IF g.matched THEN Find(g, LegalMoves(p)) ELSE Fail
    IN  IF san = <<"O", "-", "O">>
        THEN Castle(Move(Square(IF p.turn = "w" THEN 0 ELSE 7, 4),
                         Square(IF p.turn = "w" THEN 0 ELSE 7, 6)))
        ELSE IF san = <<"O", "-", "O", "-", "O">>
        THEN Castle(Move(Square(IF p.turn = "w" THEN 0 ELSE 7, 4),
                         Square(IF p.turn = "w" THEN 0 ELSE 7, 2)))
        ELSE Parse(SanRegexMatch(san))

\* make_move_from_san: [err, pos, info, move]; move is the move parsed.
make_move_from_san(p, san) ==
    LET Apply(g) ==
            IF g.err # ""
            THEN [err |-> g.err, pos |-> p, info |-> MoveInfo(g.move, NullSymbol),
                  move |-> g.move]
            ELSE LET Made(r) == [err |-> r.err, pos |-> r.pos, info |-> r.info,
                                 move |-> g.move]
                 IN  Made(make_move(p, g.move))
    IN  Apply(get_move_from_san(p, san))

\* ------------------------------------------------------------------------
\* FEN rendering and parsing (src/libchess/position.cc).  A string is a
\* sequence of one-character strings.
\* ------------------------------------------------------------------------

\* Largest value of the int counters m_half_moves and m_ply.
INT_MAX == 2147483647

Digits == <<"0", "1", "2", "3", "4", "5", "6", "7", "8", "9">>

DigitValue(c) ==
    CASE c = "0" -> 0 [] c = "1" -> 1 [] c = "2" -> 2 [] c = "3" -> 3
      [] c = "4" -> 4 [] c = "5" -> 5 [] c = "6" -> 6 [] c = "7" -> 7
      [] c = "8" -> 8 [] c = "9" -> 9

IsDigit(c) == \E i \in 1..10 : Digits[i] = c

\* boost::lexical_cast<std::string>(int)
RECURSIVE DecimalOfNat(_)
DecimalOfNat(n) ==
    IF n < 10 THEN <<Digits[n + 1]>>
    ELSE DecimalOfNat(n \div 10) \o <<Digits[(n % 10) + 1]>>

lexical_cast_string(n) ==
    IF n < 0 THEN <<"-">> \o DecimalOfNat(-n) ELSE DecimalOfNat(n)

\* boost::lexical_cast<int>(std::string) on a string of decimal digits:
\* [ok, value]; ok is FALSE (bad_lexical_cast) when the value exceeds INT_MAX.
RECURSIVE CastLoop(_, _, _)
CastLoop(s, i, acc) ==
    IF i > Len(s) THEN [ok |-> TRUE, value |-> acc]
    ELSE LET d == DigitValue(s[i])
         IN  IF acc > (INT_MAX - d) \div 10 THEN [ok |-> FALSE, value |-> 0]
             ELSE CastLoop(s, i + 1, acc * 10 + d)

lexical_cast_int(s) == CastLoop(s, 1, 0)

\* The board field.  The loop runs over the 128 slots and skips those with
\* (i & 0x88) set; the run counter `empty` is flushed behind the last file of
\* every row, so the rows are rendered one by one, from slot i of a row on.
RECURSIVE FenRow(_, _, _)
FenRow(p, i, empty) ==
    LET square == from_x88_index(i)
        piece == get(p, square)
        out == IF Piece_is_valid(piece)
               THEN (IF empty # 0 THEN <<Digits[empty + 1]>> ELSE <<>>) \o <<piece>>
               ELSE <<>>
        empty1 == IF Piece_is_valid(piece) THEN 0 ELSE empty + 1
    IN  IF Square_file(square) = 7
        THEN out \o (IF empty1 # 0 THEN <<Digits[empty1 + 1]>> ELSE <<>>)
                 \o (IF i # 119 THEN <<"/">> ELSE <<>>)
        ELSE out \o FenRow(p, i + 1, empty1)

RECURSIVE FenBoard(_, _)
FenBoard(p, i) ==
    IF i >= 128 THEN <<>>
    ELSE FenRow(p, i, 0) \o FenBoard(p, i + 16)

FenCastling(p) ==
    IF p.white_castle_kingside \/ p.white_castle_queenside
         \/ p.black_castle_kingside \/ p.black_castle_queenside
    THEN (IF p.white_castle_kingside THEN <<"K">> ELSE <<>>)
         \o (IF p.white_castle_queenside THEN <<"Q">> ELSE <<>>)
         \o (IF p.black_castle_kingside THEN <<"k">> ELSE <<>>)
         \o (IF p.black_castle_queenside THEN <<"q">> ELSE <<>>)
    ELSE <<"-">>

fen(p) ==
    FenBoard(p, 0)
      \o <<" ">> \o <<p.turn>>
      \o <<" ">> \o FenCastling(p)
      \o <<" ">> \o (IF Square_is_valid(get_ep_square(p))
                     THEN Square_name(get_ep_square(p)) ELSE <<"-">>)
      \o <<" ">> \o lexical_cast_string(p.half_moves)
      \o <<" ">> \o lexical_cast_string(p.ply)

\* boost::algorithm::split(parts, s, is_any_of(seps), compress): the
\* positions at which a token ends.  With compress, a separator that follows
\* a separator ends no token.
SplitCuts(s, seps, compress) ==
    {i \in 1..Len(s) : /\ s[i] \in seps
                       /\ ~(compress /\ i > 1 /\ s[i - 1] \in seps)}

\* The tokens, in order: the characters between one cut and the next.
split(s, seps, compress) ==
    LET NotSep(c) == c \notin seps
        Tokens(cuts) ==
            <<>> \o [k \in 1..(Cardinality(cuts) + 1) |->
                LET Cut(n) == CHOOSE c \in cuts : Cardinality({d \in cuts : d < c}) = n
                    from == IF k = 1 THEN 0 ELSE Cut(k - 2)
                    to == IF k = Cardinality(cuts) + 1 THEN Len(s) + 1 ELSE Cut(k - 1)
                IN  SelectSeq(SubSeq(s, from + 1, to - 1), NotSep)]
    IN  Tokens(SplitCuts(s, seps, compress))

PieceLetters == WhiteSymbols \cup BlackSymbols

\* The per-row check of the board field: TRUE iff the row is accepted.
RECURSIVE RowOk(_, _, _, _)
RowOk(row, i, field_sum, previous_was_number) ==
    IF i > Len(row) THEN field_sum = 8
    ELSE LET c == row[i]
         IN  IF IsDigit(c) /\ c # "0" /\ c # "9"
             THEN IF previous_was_number THEN FALSE
                  ELSE RowOk(row, i + 1, field_sum + DigitValue(c), TRUE)
             ELSE IF c \in PieceLetters
                  THEN RowOk(row, i + 1, field_sum + 1, FALSE)
                  ELSE FALSE

Opt(c) == {<<>>, <<c>>}

\* ^(KQ?k?q?|Qk?q?|kq?|q|-)$
CastlingFieldOk(s) ==
    s \in ({<<"K">> \o a \o b \o c : a \in Opt("Q"), b \in Opt("k"), c \in Opt("q")}
           \cup {<<"Q">> \o b \o c : b \in Opt("k"), c \in Opt("q")}
           \cup {<<"k">> \o c : c \in Opt("q")}
           \cup {<<"q">>, <<"-">>})

\* ^(-|[a-h][36])$
EpFieldOk(s) ==
    \/ s = <<"-">>
    \/ /\ Len(s) = 2
       /\ s[1] \in {"a", "b", "c", "d", "e", "f", "g", "h"}
       /\ s[2] \in {"3", "6"}

\* [1-9][0-9]*
PositiveNumberOk(s) ==
    /\ Len(s) >= 1
    /\ IsDigit(s[1]) /\ s[1] # "0"
    /\ \A i \in 2..Len(s) : IsDigit(s[i])

\* ^0|[1-9][0-9]*$ under regex_match (whole string)
HalfMovesFieldOk(s) == s = <<"0">> \/ PositiveNumberOk(s)

\* The loop that sets the pieces on the cleared board, from character i of s
\* with the running index at x88: a piece letter is stored at the index that
\* the characters before it have advanced to.
FillBoard(board, s, i, x88) ==
    LET IsSkip(c) == IsDigit(c) /\ c # "0" /\ c # "9"
        Advance(c) == IF c = "/" THEN 8 ELSE IF IsSkip(c) THEN DigitValue(c) ELSE 1
        IsPiece(c) == c # "/" /\ ~IsSkip(c)
        Index(j) == x88 + Cardinality({ku \in (i..(j - 1)) \X (1..8) :
                                          ku[2] <= Advance(s[ku[1]])})
        Cell(at, x) ==
            LET hits == {j \in i..Len(s) : IsPiece(s[j]) /\ at[j - i + 1] = x}
            IN  IF hits = {} THEN board[x]
                ELSE s[CHOOSE j \in hits : \A h \in hits : h <= j]
        Cells(at) == <<>> \o [k \in 1..128 |-> Cell(at, k - 1)]
        Stored(cells) == [x \in 0..127 |-> cells[x + 1]]
    IN  Stored(Cells(<<>> \o [k \in 1..(Len(s) - i + 1) |-> Index(k + i - 1)]))

clear_board == [i \in 0..127 |-> NullSymbol]

HasChar(s, c) == \E i \in 1..Len(s) : s[i] = c

\* Result: [err, pos].  err = "fen": rejected by the checks, pos = p.
\* err = "bad_lexical_cast": a counter did not fit an int; pos holds what the
\* assignments before the failing cast have stored.
set_fen(p, str) ==
    LET parts == split(str, {"\t", " "}, TRUE)
        rows == split(parts[1], {"/"}, FALSE)
    IN  IF Len(parts) # 6 THEN [err |-> "fen", pos |-> p]
        ELSE IF Len(rows) # 8 THEN [err |-> "fen", pos |-> p]
        ELSE IF \E r \in 1..8 : ~RowOk(rows[r], 1, 0, FALSE)
             THEN [err |-> "fen", pos |-> p]
        ELSE IF parts[2] # <<"w">> /\ parts[2] # <<"b">>
             THEN [err |-> "fen", pos |-> p]
        ELSE IF ~CastlingFieldOk(parts[3]) THEN [err |-> "fen", pos |-> p]
        ELSE IF ~EpFieldOk(parts[4]) THEN [err |-> "fen", pos |-> p]
        ELSE IF ~HalfMovesFieldOk(parts[5]) THEN [err |-> "fen", pos |-> p]
        ELSE IF ~PositiveNumberOk(parts[6]) THEN [err |-> "fen", pos |-> p]
        ELSE LET p1 == [p EXCEPT
                          !.board = FillBoard(clear_board, parts[1], 1, 0),
                          !.turn = parts[2][1],
                          !.white_castle_kingside = HasChar(parts[3], "K"),
                          !.white_castle_queenside = HasChar(parts[3], "Q"),
                          !.black_castle_kingside = HasChar(parts[3], "k"),
                          !.black_castle_queenside = HasChar(parts[3], "q"),
                          !.ep_file = IF parts[4][1] = "-" THEN "" ELSE parts[4][1]]
                 half_moves == lexical_cast_int(parts[5])
                 ply == lexical_cast_int(parts[6])
             IN  IF ~half_moves.ok THEN [err |-> "bad_lexical_cast", pos |-> p1]
                 ELSE IF ~ply.ok
                      THEN [err |-> "bad_lexical_cast",
                            pos |-> [p1 EXCEPT !.half_moves = half_moves.value]]
                 ELSE [err |-> "",
                       pos |-> [p1 EXCEPT !.half_moves = half_moves.value,
                                          !.ply = ply.value]]

\* Position::reset
StartRank == <<"r", "n", "b", "q", "k", "b", "n", "r">>

reset ==
    [board |-> [i \in 0..127 |->
                   IF i \in 112..119 THEN toupper(StartRank[i - 111])
                   ELSE IF i \in 96..103 THEN "P"
                   ELSE IF i \in 0..7 THEN StartRank[i + 1]
                   ELSE IF i \in 16..23 THEN "p"
                   ELSE NullSymbol],
     turn |-> "w", ep_file |-> "", half_moves |-> 0, ply |-> 1,
     white_castle_queenside |-> TRUE, white_castle_kingside |-> TRUE,
     black_castle_queenside |-> TRUE, black_castle_kingside |-> TRUE]

\* ------------------------------------------------------------------------
\* Position::__hash__ (src/libchess/position.cc).  A uint64_t is a tuple of
\* four 16-bit limbs, most significant first: 0x463B96181691FC9C is
\* <<17979, 38424, 5777, 64668>>.
\* ------------------------------------------------------------------------

\* The 781 entries, entry k of the source at index k + 1.
POLYGLOT_RANDOM_ARRAY == <<
    <<40249, 9342, 13175, 27969>>, <<10999, 14720, 1450, 42439>>, <<17627, 336, 9314, 13639>>, <<39957, 63294, 25255, 27362>>,
    <<30083, 17509, 18588, 3209>>, <<12944, 44090, 8240, 447>>, <<4027, 44319, 24836, 8825>>, <<59450, 37007, 62203, 24778>>,
    <<3454, 30301, 22645, 23568>>, <<6664, 14370, 52911, 57389>>, <<38405, 54768, 57950, 50096>>, <<53281, 65372, 53562, 11989>>,
    <<16573, 61789, 19047, 11826>>, <<275, 21780, 28629, 25493>>, <<23988, 33568, 18163, 55781>>, <<9119, 35629, 32759, 6604>>,
    <<1489, 41390, 34228, 39585>>, <<26527, 33935, 28303, 51569>>, <<29769, 48127, 32799, 60683>>, <<32017, 52657, 50103, 44528>>,
    <<33479, 28830, 30750, 47052>>, <<62241, 36636, 38160, 30828>>, <<13076, 30963, 44881, 48102>>, <<19379, 36325, 59169, 37955>>,
    <<43620, 40046, 48381, 20732>>, <<36285, 39075, 21167, 54283>>, <<34770, 1867, 33239, 37399>>, <<6643, 51025, 54249, 10977>>,
    <<46251, 12528, 25265, 39615>>, <<31493, 172, 16900, 31428>>, <<51525, 11432, 6665, 55389>>, <<9386, 27729, 19874, 29952>>,
    <<19615, 13378, 29953, 46151>>, <<5286, 36823, 15505, 2113>>, <<42779, 39811, 17948, 48531>>, <<840, 35733, 45297, 34063>>,
    <<25467, 11060, 65427, 49216>>, <<2513, 48282, 15833, 2708>>, <<13685, 26243, 13473, 56635>>, <<29534, 11159, 42180, 23075>>,
    <<6258, 28784, 61885, 16395>>, <<8139, 44242, 22975, 743>>, <<54032, 42946, 52891, 25941>>, <<49048, 16352, 65117, 33348>>,
    <<40820, 53583, 29780, 43044>>, <<20971, 56394, 47546, 12341>>, <<23682, 50437, 56218, 45306>>, <<64759, 65162, 13360, 45633>>,
    <<12883, 42793, 47546, 15838>>, <<35956, 50024, 2075, 12405>>, <<47548, 27783, 5756, 13287>>, <<32500, 36651, 33538, 20000>>,
    <<4565, 1492, 50001, 48511>>, <<25960, 64681, 11382, 41539>>, <<19936, 45300, 3890, 42936>>, <<38614, 37702, 3267, 32349>>,
    <<17122, 16587, 25448, 40751>>, <<27947, 56538, 58001, 38497>>, <<17032, 2818, 14052, 55633>>, <<24335, 19032, 38935, 7094>>,
    <<14840, 37109, 31225, 12168>>, <<37829, 46580, 29526, 14475>>, <<25564, 13725, 36131, 7032>>, <<60438, 51850, 60056, 44406>>,
    <<21333, 63744, 49832, 11719>>, <<2043, 40837, 23193, 28994>>, <<20627, 16762, 43175, 60766>>, <<31691, 50061, 41562, 32572>>,
    <<6652, 35446, 36084, 46804>>, <<25466, 30592, 57039, 49369>>, <<33353, 42106, 60942, 16887>>, <<31149, 26965, 487, 53736>>,
    <<5292, 47860, 30589, 22390>>, <<61765, 46782, 52446, 41365>>, <<55999, 10952, 8215, 21244>>, <<9411, 51533, 63944, 54262>>,
    <<47982, 10532, 61497, 4842>>, <<3298, 27659, 38345, 32985>>, <<42140, 53554, 49087, 31940>>, <<59805, 26154, 62500, 14649>>,
    <<10214, 44408, 37142, 23615>>, <<34101, 61504, 47476, 20465>>, <<21683, 62714, 24384, 55411>>, <<29361, 11314, 4735, 60715>>,
    <<61077, 19772, 31553, 8007>>, <<39557, 44176, 39460, 60065>>, <<28844, 19673, 61519, 8693>>, <<63928, 40254, 39328, 30146>>,
    <<34739, 58034, 46537, 1969>>, <<41830, 58808, 50511, 18616>>, <<44618, 37702, 52287, 31986>>, <<6432, 49229, 18214, 31677>>,
    <<34751, 710, 46238, 10985>>, <<2338, 14252, 9087, 14425>>, <<65287, 63054, 63725, 5328>>, <<36328, 56489, 61500, 50510>>,
    <<39958, 13094, 19892, 40073>>, <<46066, 11325, 2827, 14573>>, <<14606, 24500, 19713, 5195>>, <<23550, 42420, 28967, 26857>>,
    <<7696, 12945, 8103, 35204>>, <<39540, 44217, 25831, 36019>>, <<20352, 63392, 13786, 64260>>, <<25348, 53402, 2871, 14532>>,
    <<8561, 58950, 33538, 14856>>, <<23451, 25579, 40175, 63500>>, <<20586, 44276, 35208, 37698>>, <<6273, 45001, 41895, 470>>,
    <<25859, 2052, 16501, 1604>>, <<57299, 38195, 40155, 62631>>, <<61330, 32188, 61452, 8434>>, <<31538, 63441, 57398, 33004>>,
    <<47613, 30240, 59185, 25155>>, <<1447, 59557, 32185, 7031>>, <<46472, 40046, 5475, 2677>>, <<19061, 2569, 52885, 29687>>,
    <<53062, 19692, 35226, 12170>>, <<62776, 25500, 59141, 47140>>, <<15481, 41215, 21888, 61311>>, <<60902, 51327, 33911, 24733>>,
    <<31134, 33264, 23497, 16177>>, <<34387, 27532, 62274, 35468>>, <<38871, 14156, 24584, 31603>>, <<41542, 25468, 65330, 34098>>,
    <<1087, 51942, 3264, 60320>>, <<37390, 17557, 13789, 13726>>, <<28907, 2363, 5554, 37068>>, <<29601, 37401, 5721, 7357>>,
    <<22083, 27807, 57761, 43661>>, <<61356, 19312, 25403, 36737>>, <<47905, 22424, 54365, 63407>>, <<17906, 66, 62031, 5992>>,
    <<37647, 33012, 59627, 29794>>, <<65383, 4863, 53207, 24225>>, <<44642, 16342, 29800, 43632>>, <<56620, 23496, 19400, 55548>>,
    <<32493, 4621, 21711, 11737>>, <<8958, 21588, 278, 24348>>, <<51480, 233, 36793, 39209>>, <<32907, 54926, 27329, 869>>,
    <<57028, 26644, 23414, 1526>>, <<7149, 58275, 44789, 13058>>, <<17235, 38403, 54981, 22018>>, <<43670, 39772, 26908, 52090>>,
    <<43128, 13011, 37615, 61014>>, <<26004, 11387, 15486, 4526>>, <<57042, 54835, 51920, 1270>>, <<8688, 34160, 62496, 58725>>,
    <<46101, 37773, 32169, 20028>>, <<37304, 23013, 40651, 25424>>, <<4303, 62259, 57581, 32842>>, <<10414, 53568, 48651, 47069>>,
    <<50636, 7561, 29263, 42070>>, <<22088, 63104, 61722, 10049>>, <<11557, 20585, 61623, 55987>>, <<39877, 41870, 63273, 43988>>,
    <<61231, 1347, 2294, 41660>>, <<44832, 17141, 52316, 10328>>, <<18436, 4794, 47093, 48682>>, <<44787, 44874, 22077, 65091>>,
    <<6575, 58778, 58449, 18815>>, <<21081, 14339, 57329, 59456>>, <<62704, 30438, 24364, 59120>>, <<4407, 38437, 29821, 23283>>,
    <<48357, 53796, 34434, 49429>>, <<40356, 9277, 59446, 39247>>, <<1647, 28851, 16352, 36887>>, <<19908, 56856, 39783, 6684>>,
    <<20739, 39607, 28964, 22467>>, <<49274, 16256, 49951, 46260>>, <<46190, 59845, 58954, 28284>>, <<45953, 39490, 44006, 7303>>,
    <<8608, 1939, 14930, 10784>>, <<11761, 28534, 5528, 43599>>, <<30268, 18963, 29107, 26877>>, <<63379, 50279, 736, 34464>>,
    <<55080, 36353, 10987, 36145>>, <<56883, 27178, 19393, 50251>>, <<3062, 37555, 36103, 40739>>, <<11360, 19066, 6003, 9907>>,
    <<18512, 59198, 1003, 24676>>, <<53188, 18417, 58684, 36379>>, <<45148, 41973, 25638, 36249>>, <<39649, 33480, 48276, 29928>>,
    <<42236, 19412, 64597, 22730>>, <<59221, 6029, 22780, 20086>>, <<27065, 32177, 42176, 15870>>, <<63925, 47044, 44230, 31894>>,
    <<64618, 33494, 19334, 22011>>, <<40040, 19638, 50386, 17431>>, <<36553, 32041, 5957, 28368>>, <<26371, 57245, 10532, 59774>>,
    <<50503, 62846, 17063, 17486>>, <<30947, 30276, 59338, 53918>>, <<65178, 17641, 13871, 1530>>, <<2237, 13772, 14387, 26133>>,
    <<37653, 58859, 14866, 39630>>, <<37894, 7047, 7684, 57205>>, <<57117, 40861, 30795, 40976>>, <<15290, 22454, 34929, 46493>>,
    <<53943, 44526, 57041, 63295>>, <<63394, 21976, 15299, 29688>>, <<55284, 62020, 35852, 60289>>, <<55643, 59532, 53776, 65447>>,
    <<13167, 21240, 65351, 10471>>, <<42816, 18906, 49938, 44145>>, <<41718, 7094, 58423, 64949>>, <<20266, 23728, 32618, 13747>>,
    <<34771, 32957, 42431, 30809>>, <<5817, 63456, 27717, 14881>>, <<31650, 18508, 35343, 54606>>, <<62374, 30922, 55714, 58252>>,
    <<14768, 49021, 56899, 31650>>, <<64687, 21953, 49034, 17444>>, <<6396, 63104, 22335, 42388>>, <<19461, 25528, 40777, 23235>>,
    <<16608, 34707, 6656, 37645>>, <<36095, 43329, 11958, 17089>>, <<26826, 14597, 12897, 5791>>, <<31262, 59751, 53877, 31202>>,
    <<40221, 24805, 1903, 23407>>, <<14352, 58265, 46838, 23458>>, <<12809, 23405, 19125, 63921>>, <<13770, 46625, 2525, 906>>,
    <<43275, 9289, 40911, 44977>>, <<30626, 9632, 31938, 50877>>, <<20798, 24163, 19568, 58161>>, <<17249, 49354, 16233, 12050>>,
    <<55617, 44196, 19232, 42075>>, <<21135, 31878, 709, 32891>>, <<21163, 37566, 47457, 14729>>, <<40221, 64046, 64597, 32627>>,
    <<29231, 61813, 62834, 49992>>, <<7442, 24741, 4359, 65175>>, <<31268, 39511, 60428, 39842>>, <<1056, 36841, 59639, 62166>>,
    <<23057, 3168, 22713, 8352>>, <<3289, 42135, 25994, 22168>>, <<22269, 9160, 63857, 23116>>, <<10316, 33915, 40328, 31406>>,
    <<1278, 44027, 48566, 6603>>, <<29742, 7781, 7264, 47747>>, <<39574, 13030, 22788, 44348>>, <<34843, 33441, 15185, 47586>>,
    <<20590, 26436, 52631, 18724>>, <<45080, 15797, 28668, 27257>>, <<3801, 47381, 50798, 54142>>, <<24081, 59501, 22643, 54404>>,
    <<63096, 25726, 13593, 44142>>, <<7045, 54408, 53490, 3269>>, <<55993, 65125, 9688, 36897>>, <<3349, 7558, 44471, 13845>>,
    <<43109, 42318, 56512, 61465>>, <<37828, 9574, 44793, 36859>>, <<39399, 45034, 48640, 1841>>, <<18635, 65288, 28127, 10330>>,
    <<32667, 27377, 60407, 35759>>, <<22626, 32282, 5275, 47649>>, <<11473, 28202, 48505, 7731>>, <<54115, 61429, 61591, 31126>>,
    <<3298, 41868, 13386, 28397>>, <<6784, 19117, 47567, 42817>>, <<36991, 12354, 7544, 50654>>, <<20511, 26093, 45827, 19719>>,
    <<14178, 19173, 42127, 42729>>, <<38267, 44897, 28684, 65358>>, <<14956, 10131, 20017, 6282>>, <<54421, 851, 27324, 41797>>,
    <<2190, 1173, 35268, 13024>>, <<63811, 44775, 65215, 8632>>, <<27707, 36414, 13153, 14803>>, <<13903, 28666, 17998, 58670>>,
    <<54799, 28110, 56369, 16930>>, <<22166, 15117, 51777, 36800>>, <<5877, 3807, 37349, 5039>>, <<61209, 21905, 19296, 40851>>,
    <<22102, 448, 13902, 12840>>, <<60597, 14649, 34942, 33141>>, <<47815, 43425, 34097, 10571>>, <<45892, 50288, 14715, 47698>>,
    <<26067, 18772, 56051, 52925>>, <<46264, 6975, 43381, 4578>>, <<46114, 1553, 37846, 63143>>, <<1813, 33344, 7224, 17229>>,
    <<31251, 61835, 48860, 20469>>, <<48192, 38833, 5829, 9426>>, <<22969, 30853, 58098, 59944>>, <<39191, 2653, 49937, 21828>>,
    <<28482, 13143, 59334, 43513>>, <<12889, 10478, 28271, 34708>>, <<53476, 13922, 10416, 13123>>, <<22108, 12791, 56969, 59943>>,
    <<12533, 24852, 33809, 37908>>, <<55411, 56121, 4754, 60751>>, <<31705, 19997, 36375, 57020>>, <<51161, 61800, 25767, 28308>>,
    <<38010, 57427, 61014, 58940>>, <<51401, 14466, 63815, 24415>>, <<15003, 62811, 43295, 33226>>, <<55713, 8123, 15768, 2276>>,
    <<4050, 8291, 60866, 40906>>, <<46066, 22232, 44192, 45241>>, <<45104, 12712, 46161, 28292>>, <<13789, 14293, 34580, 18607>>,
    <<59894, 2091, 1364, 11854>>, <<60410, 64051, 55077, 19289>>, <<37461, 43957, 3411, 8832>>, <<47531, 19685, 32557, 13555>>,
    <<26933, 470, 10281, 30033>>, <<50732, 22777, 32217, 18879>>, <<52549, 20367, 6597, 4714>>, <<48104, 16206, 52267, 57035>>,
    <<56452, 11134, 10265, 57904>>, <<47753, 5166, 117, 952>>, <<41916, 37917, 2640, 25035>>, <<59894, 30222, 13005, 32801>>,
    <<2503, 58706, 48246, 18735>>, <<34095, 21651, 19877, 23753>>, <<33031, 64719, 1615, 53078>>, <<2441, 21717, 8191, 25984>>,
    <<9143, 3803, 6485, 50367>>, <<49968, 56898, 25648, 63133>>, <<18197, 60739, 59556, 23562>>, <<43223, 58586, 46976, 41101>>,
    <<1394, 47476, 61500, 57531>>, <<46461, 11928, 24084, 6599>>, <<59609, 60606, 11507, 55103>>, <<12260, 45425, 28901, 38736>>,
    <<4401, 31656, 30981, 59280>>, <<32703, 8684, 35359, 17900>>, <<5925, 51903, 51972, 23296>>, <<38478, 37212, 54754, 45575>>,
    <<15915, 35787, 61462, 54893>>, <<48756, 17635, 37672, 41132>>, <<63579, 11087, 48350, 17591>>, <<18741, 16362, 14778, 25521>>,
    <<7632, 6831, 52563, 18538>>, <<8138, 35474, 64881, 40837>>, <<64636, 38360, 10037, 31482>>, <<6310, 43408, 51379, 24253>>,
    <<52427, 28677, 50873, 49805>>, <<15323, 47404, 17329, 32550>>, <<43632, 46516, 63638, 38306>>, <<59724, 14757, 19096, 12415>>,
    <<47008, 45428, 53238, 62318>>, <<54491, 43079, 10671, 18605>>, <<11800, 48154, 55664, 19048>>, <<11744, 38509, 44847, 35612>>,
    <<47553, 7515, 7747, 41086>>, <<25751, 11624, 57059, 13152>>, <<37986, 36152, 53442, 1412>>, <<56256, 53942, 43920, 42329>>,
    <<53875, 15427, 13766, 42799>>, <<32373, 55709, 38055, 3917>>, <<27885, 6531, 14191, 42795>>, <<38908, 43723, 61488, 48164>>,
    <<31607, 18811, 12880, 15122>>, <<34119, 60895, 47132, 52116>>, <<31129, 40159, 63241, 715>>, <<53246, 6457, 17294, 39716>>,
    <<33430, 9955, 35117, 38359>>, <<37626, 57922, 37362, 46065>>, <<25570, 11284, 31644, 13315>>, <<50808, 46808, 24616, 18972>>,
    <<22643, 34952, 20581, 39655>>, <<2433, 56530, 38568, 29549>>, <<40805, 30874, 25865, 42048>>, <<40947, 36845, 29417, 1327>>,
    <<58489, 61019, 39216, 22412>>, <<59378, 36557, 11593, 61133>>, <<22208, 29861, 33258, 6142>>, <<21828, 63447, 29873, 19183>>,
    <<31551, 405, 64623, 10511>>, <<4629, 13877, 45760, 53079>>, <<32593, 9947, 47710, 3239>>, <<31350, 38252, 16047, 46099>>,
    <<15703, 29857, 7473, 43833>>, <<35355, 2104, 8692, 3252>>, <<31562, 14563, 9527, 57186>>, <<38145, 4964, 27933, 28163>>,
    <<19880, 38810, 65, 59561>>, <<15299, 28167, 36725, 5591>>, <<23818, 4850, 31443, 4305>>, <<32669, 6702, 7870, 4903>>,
    <<55866, 13851, 7249, 22449>>, <<56541, 32032, 36925, 3109>>, <<13955, 13110, 53352, 63239>>, <<52840, 13343, 31113, 13193>>,
    <<43920, 36886, 36304, 24372>>, <<17301, 19250, 21212, 9701>>, <<46136, 49846, 32664, 58857>>, <<4316, 55182, 14417, 42130>>,
    <<56258, 31413, 17528, 8895>>, <<39740, 56165, 63532, 41858>>, <<46715, 30870, 5755, 19588>>, <<49102, 53680, 1166, 44112>>,
    <<43281, 39776, 13983, 65213>>, <<8191, 31432, 2308, 48965>>, <<44050, 64279, 6167, 61159>>, <<44808, 55953, 30685, 43325>>,
    <<6924, 43923, 28261, 51012>>, <<46425, 60189, 1253, 59698>>, <<50043, 17843, 63702, 62138>>, <<50089, 56354, 36010, 51689>>,
    <<62392, 46695, 23141, 2047>>, <<40900, 30686, 20182, 33242>>, <<26423, 36238, 52463, 38603>>, <<28120, 22233, 19749, 37430>>,
    <<41753, 52757, 45236, 56113>>, <<1849, 29557, 7954, 56670>>, <<35470, 33950, 45863, 33189>>, <<57746, 23665, 10322, 31221>>,
    <<29888, 19441, 30988, 3838>>, <<19930, 18453, 15508, 37770>>, <<40230, 28010, 7360, 21548>>, <<29760, 64385, 25864, 50430>>,
    <<4914, 34051, 57160, 8863>>, <<54975, 31662, 58428, 44096>>, <<18488, 54879, 28406, 29839>>, <<7701, 9000, 62257, 36330>>,
    <<36740, 6563, 18674, 38591>>, <<29384, 33610, 22871, 46353>>, <<55200, 9127, 12896, 46172>>, <<38123, 51371, 53173, 28078>>,
    <<40897, 3343, 39065, 37856>>, <<56936, 41525, 23443, 51942>>, <<42060, 65145, 44627, 35774>>, <<40221, 34044, 52791, 5157>>,
    <<20946, 45483, 11743, 46646>>, <<12247, 58553, 59180, 54156>>, <<26058, 23446, 46933, 8720>>, <<56681, 41176, 43835, 21613>>,
    <<24653, 20914, 24511, 28898>>, <<29610, 35414, 20407, 44190>>, <<6796, 7833, 11156, 4424>>, <<43716, 2599, 985, 48800>>,
    <<30285, 48814, 32676, 62374>>, <<7833, 47470, 28841, 48779>>, <<11358, 40427, 22511, 18243>>, <<14995, 36846, 13010, 39297>>,
    <<9958, 56207, 65013, 44542>>, <<18067, 22213, 1260, 40861>>, <<51318, 15451, 2257, 37004>>, <<16236, 27384, 23000, 85>>,
    <<32636, 50068, 8355, 42309>>, <<39931, 8830, 48628, 50638>>, <<35075, 40313, 55036, 23644>>, <<36840, 35671, 12382, 10934>>,
    <<41118, 35980, 13739, 38622>>, <<64126, 14649, 33586, 22355>>, <<54966, 53484, 50711, 50841>>, <<57322, 8682, 40565, 22499>>,
    <<46716, 8100, 33128, 2808>>, <<51742, 14213, 43495, 9445>>, <<7420, 35821, 3432, 5689>>, <<53645, 34121, 53568, 51946>>,
    <<20176, 65150, 40393, 4917>>, <<58587, 61539, 17523, 62930>>, <<5985, 63802, 17621, 44798>>, <<21385, 36428, 14608, 55893>>,
    <<29517, 59416, 8046, 50074>>, <<9856, 45346, 47778, 36247>>, <<10634, 62001, 51291, 44971>>, <<31107, 61139, 29704, 18389>>,
    <<26305, 41633, 42508, 55433>>, <<40471, 58518, 17059, 58561>>, <<60852, 21735, 47836, 2053>>, <<20663, 1226, 46594, 49961>>,
    <<19651, 6139, 40157, 53283>>, <<26292, 33629, 40623, 59938>>, <<8603, 38882, 28668, 33213>>, <<9758, 20044, 2611, 15005>>,
    <<8162, 52391, 25879, 56208>>, <<55120, 19962, 34838, 60859>>, <<47447, 8096, 19904, 35272>>, <<7644, 805, 9627, 10206>>,
    <<53055, 18056, 32798, 47530>>, <<62709, 53340, 4298, 45635>>, <<14518, 21084, 8612, 11022>>, <<14070, 3627, 42234, 26624>>,
    <<60213, 37760, 12659, 57550>>, <<40012, 54821, 31834, 13827>>, <<44812, 12669, 12973, 43658>>, <<9614, 23168, 50976, 19531>>,
    <<35720, 40290, 19780, 34909>>, <<62673, 17815, 58976, 63573>>, <<54324, 32614, 60553, 16835>>, <<59033, 60805, 45279, 46093>>,
    <<9330, 63008, 31789, 1156>>, <<49825, 59317, 46169, 44725>>, <<43855, 25681, 52253, 17900>>, <<25462, 30066, 44605, 24948>>,
    <<42398, 3025, 371, 6696>>, <<4461, 22, 52116, 36617>>, <<11513, 51402, 1327, 28319>>, <<2825, 2677, 24745, 26851>>,
    <<44014, 56754, 56800, 28657>>, <<22767, 49419, 1698, 1677>>, <<50917, 31352, 64473, 34528>>, <<11947, 36006, 15592, 727>>,
    <<5281, 38244, 278, 62262>>, <<31752, 10461, 25166, 50064>>, <<55115, 48759, 58897, 27335>>, <<32836, 22191, 4341, 64339>>,
    <<60393, 59946, 57155, 8647>>, <<801, 39481, 61016, 31280>>, <<18808, 32751, 6063, 39204>>, <<41449, 12300, 55378, 1352>>,
    <<23365, 58658, 58545, 46319>>, <<46236, 15161, 38153, 6710>>, <<54345, 2773, 9969, 17457>>, <<4776, 61974, 44948, 6338>>,
    <<31, 33660, 50997, 1316>>, <<6263, 46366, 22439, 25813>>, <<41605, 15232, 61823, 22766>>, <<39230, 7655, 11574, 54032>>,
    <<45913, 32896, 52836, 42582>>, <<9519, 22991, 3487, 1211>>, <<53820, 36375, 27921, 13824>>, <<7130, 1170, 59364, 22638>>,
    <<8672, 48464, 9926, 6591>>, <<15113, 31450, 61576, 63822>>, <<36116, 57051, 12478, 33902>>, <<63836, 65442, 15093, 63220>>,
    <<14449, 28679, 25011, 63299>>, <<51815, 11153, 59876, 64022>>, <<25800, 58673, 49141, 15189>>, <<9234, 24813, 19153, 59517>>,
    <<4204, 2489, 29394, 59426>>, <<32698, 6484, 4325, 51760>>, <<30852, 55740, 27829, 27096>>, <<1607, 57325, 52617, 18985>>,
    <<25431, 16368, 15906, 18292>>, <<20424, 59734, 3985, 45347>>, <<7609, 22244, 20519, 22393>>, <<47321, 4724, 47593, 54523>>,
    <<41707, 60999, 58107, 64737>>, <<55793, 62220, 52631, 64265>>, <<61421, 21463, 24534, 20075>>, <<11885, 707, 24599, 63103>>,
    <<43434, 19744, 56072, 20123>>, <<46667, 59608, 45651, 38593>>, <<28875, 27383, 49877, 48368>>, <<39152, 30372, 63394, 12846>>,
    <<49028, 18184, 1510, 39775>>, <<38083, 9503, 1785, 3315>>, <<15872, 15969, 27237, 37353>>, <<47397, 42701, 1057, 45043>>,
    <<25021, 53552, 31846, 58112>>, <<49037, 20744, 57982, 3400>>, <<9226, 46458, 35720, 35616>>, <<64647, 24907, 44840, 32263>>,
    <<61186, 52688, 28669, 46130>>, <<41224, 11268, 26335, 27658>>, <<33301, 58743, 19, 13000>>, <<54171, 47555, 42125, 46799>>,
    <<10040, 9622, 13360, 23572>>, <<25039, 20372, 51581, 63805>>, <<7019, 44194, 44622, 4699>>, <<30095, 17676, 34903, 11787>>,
    <<38303, 22653, 20602, 33625>>, <<45155, 59746, 57413, 62797>>, <<24808, 60786, 49375, 62929>>, <<31588, 38789, 21810, 28575>>,
    <<64776, 3363, 28072, 5306>>, <<35984, 64923, 2111, 17752>>, <<4207, 29438, 33250, 50576>>, <<31094, 826, 14839, 55634>>,
    <<42220, 306, 30284, 41035>>, <<29502, 42757, 64228, 64119>>, <<46296, 63355, 50149, 24935>>, <<40481, 62713, 947, 16345>>,
    <<40310, 24129, 40886, 40813>>, <<54028, 2187, 42526, 42479>>, <<23956, 13183, 49071, 32603>>, <<6734, 18466, 60237, 31321>>,
    <<28670, 29672, 7011, 32691>>, <<56825, 22460, 14040, 47562>>, <<25808, 58014, 60040, 14515>>, <<2269, 39903, 55659, 40803>>,
    <<2174, 31205, 42365, 7443>>, <<58152, 57904, 58338, 46075>>, <<7205, 23011, 3849, 18110>>, <<29195, 62962, 28493, 11946>>,
    <<45175, 19750, 7366, 2523>>, <<17471, 25836, 23095, 4501>>, <<16658, 53096, 25754, 9742>>, <<55315, 62202, 47093, 50634>>,
    <<26125, 12887, 14344, 16878>>, <<22956, 11384, 29689, 4259>>, <<59462, 38456, 30567, 6679>>, <<37814, 13227, 64052, 27128>>,
    <<49344, 62886, 3828, 52687>>, <<51954, 7885, 17271, 45708>>, <<22311, 30471, 6555, 33141>>, <<20588, 4537, 55566, 35613>>,
    <<55356, 49768, 31257, 9567>>, <<18985, 50758, 23089, 19665>>, <<60717, 61970, 5667, 20631>>, <<46435, 23701, 65394, 38626>>,
    <<8879, 58, 46706, 59409>>, <<21223, 25177, 27638, 33333>>, <<39659, 41786, 50924, 50864>>, <<37967, 28128, 37172, 57270>>,
    <<27719, 48840, 33703, 56889>>, <<27344, 18372, 12449, 8452>>, <<42417, 53211, 41131, 16487>>, <<31813, 55347, 45040, 30818>>,
    <<20626, 61333, 2582, 55819>>, <<37688, 59036, 1323, 36475>>, <<17754, 19276, 65072, 58357>>, <<27394, 58929, 38317, 3320>>,
    <<27415, 45604, 47830, 48935>>, <<53728, 52434, 23481, 49513>>, <<56844, 35237, 22201, 44656>>, <<20486, 24147, 23073, 15606>>,
    <<39953, 27130, 10103, 47220>>, <<30957, 61398, 38063, 7917>>, <<28105, 15765, 9893, 3688>>, <<61079, 62547, 61543, 37357>>,
    <<12971, 3803, 26983, 979>>, <<14952, 21447, 59143, 22439>>, <<12678, 23789, 24864, 62333>>, <<26622, 63837, 37472, 30864>>,
    <<7979, 7455, 5622, 56476>>, <<46750, 14504, 38492, 27493>>, <<43665, 6655, 6220, 52468>>, <<62524, 29480, 29682, 19475>>,
    <<64330, 15737, 19098, 32978>>, <<13648, 49714, 8150, 4252>>, <<14111, 30695, 27576, 16766>>, <<27642, 39598, 24256, 22393>>,
    <<52484, 62463, 26, 18296>>, <<58151, 13602, 1604, 32970>>, <<40849, 20619, 65487, 49482>>, <<1178, 32577, 1562, 40544>>,
    <<64694, 48707, 43506, 65179>>, <<2270, 35356, 30615, 55963>>, <<36760, 34790, 1927, 13729>>, <<46516, 1821, 49095, 14950>>,
    <<8974, 13373, 64416, 36147>>, <<17389, 32602, 4014, 25981>>, <<14984, 41211, 48304, 23651>>, <<8583, 19339, 19757, 48207>>,
    <<7134, 41262, 13814, 43209>>, <<21440, 26054, 51430, 13608>>, <<58186, 7461, 3706, 36203>>, <<54960, 19771, 30289, 56702>>,
    <<24208, 10110, 31923, 40493>>, <<11268, 28450, 1581, 50813>>, <<45323, 46169, 4909, 2598>>, <<16297, 56827, 26594, 61849>>,
    <<3593, 47246, 6420, 63407>>, <<4328, 45914, 62446, 43831>>, <<40685, 60584, 57970, 47411>>, <<54471, 6332, 19176, 44639>>,
    <<33107, 28000, 4464, 64544>>, <<37301, 13560, 34177, 35334>>, <<60545, 30712, 16272, 2424>>, <<6414, 29007, 44453, 5486>>,
    <<46482, 48953, 45110, 18787>>, <<35267, 20680, 37806, 32193>>, <<44036, 11888, 63667, 33778>>, <<46235, 21221, 34721, 61024>>,
    <<64277, 12259, 65318, 55945>>, <<15974, 28271, 27054, 11285>>, <<15188, 20158, 21580, 6649>>, <<59397, 41442, 37071, 9302>>,
    <<9395, 15517, 32466, 20759>>, <<59207, 13122, 31602, 61633>>, <<2688, 19736, 46857, 29813>>, <<22499, 12397, 34846, 56143>>,
    <<19175, 54947, 28341, 56267>>, <<11661, 21554, 5488, 25800>>, <<53734, 18910, 7807, 9867>>, <<35378, 35356, 60926, 21804>>,
    <<1955, 44743, 38436, 51162>>, <<33876, 32220, 15904, 15508>>, <<39178, 39165, 20593, 53859>>, <<6735, 61734, 5870, 64649>>,
    <<63223, 64788, 12657, 16896>>, <<12480, 23323, 41778, 62492>>, <<36134, 14008, 5461, 42886>>, <<18121, 65205, 23826, 2306>>,
    <<52460, 2675, 46236, 39201>>, <<20125, 10279, 13663, 50322>>, <<6635, 45097, 17245, 51983>>, <<18009, 53943, 17284, 35372>>,
    <<38462, 62153, 27443, 48689>>, <<29944, 20888, 45146, 11901>>, <<23055, 21581, 53937, 64280>>, <<882, 28787, 49889, 13489>>,
    <<51190, 43565, 58778, 60001>>, <<13607, 34746, 41175, 49711>>, <<38995, 60086, 15198, 2869>>, <<43965, 52695, 60764, 2144>>,
    <<52997, 56053, 44173, 30640>>, <<18890, 54412, 60404, 42782>>, <<31308, 4332, 8536, 50342>>, <<55785, 10914, 18111, 29086>>,
    <<5038, 38797, 2558, 21847>>, <<29444, 39343, 37397, 18943>>, <<20043, 28763, 37520, 15268>>, <<65367, 29218, 49487, 2618>>,
    <<21942, 13388, 63866, 44974>>, <<47202, 8795, 1371, 26976>>, <<51904, 39675, 56786, 52660>>, <<56056, 59778, 40937, 27487>>,
    <<46589, 64605, 12594, 50328>>, <<12556, 45952, 56175, 29955>>, <<59519, 47942, 8570, 13838>>, <<8450, 44614, 28347, 4424>>,
    <<63572, 40474, 15013, 57357>>, <<1958, 39677, 52290, 9754>>, <<50369, 6335, 59279, 60078>>, <<63988, 35118, 55659, 54328>>,
    <<6899, 56290, 23951, 17882>>, <<62900, 45232, 53982, 61108>>, <<38442, 52975, 43054, 7300>>, <<1134, 16074, 44869, 15593>>,
    <<61533, 4758, 33172, 39500>>, <<38471, 33230, 29515, 15492>>, <<39982, 54336, 33230, 24509>>, <<21038, 9203, 37470, 12702>>,
    <<6014, 249, 64562, 63377>>, <<11206, 2659, 42739, 46066>>, <<8747, 49070, 24946, 22022>>, <<18530, 35293, 52285, 26496>>,
    <<32199, 30811, 36605, 64640>>, <<35571, 34609, 49195, 43392>>, <<8107, 25834, 10658, 56823>>, <<58585, 17043, 8909, 1626>>,
    <<40352, 22726, 30788, 61964>>, <<9408, 58162, 46848, 6576>>, <<9008, 949, 42703, 59053>>, <<54662, 48385, 50626, 6134>>,
    <<24150, 14216, 24361, 48171>>, <<32442, 29293, 35988, 2379>>, <<2646, 42480, 49123, 37490>>, <<55188, 30376, 20194, 3334>>,
    <<40524, 4713, 47780, 48951>>, <<6127, 60997, 45278, 58944>>, <<7573, 45221, 64761, 3014>>, <<37835, 57526, 39362, 22621>>,
    <<26106, 20258, 31275, 28025>>, <<54777, 59480, 10533, 1237>>, <<49845, 41023, 28999, 6767>>, <<22832, 546, 46166, 7680>>,
    <<52783, 34370, 51719, 4828>>, <<31913, 29247, 47918, 35208>>, <<10117, 13187, 18418, 47624>>, <<50715, 45985, 16869, 3724>>,
    <<5391, 13853, 43933, 60454>>, <<40810, 16797, 14373, 38388>>, <<25765, 15817, 9470, 31433>>, <<5165, 58527, 65402, 31805>>,
    <<3123, 21064, 34175, 43495>>, <<2716, 13013, 60132, 21253>>, <<59076, 8568, 50363, 47406>>, <<29169, 52772, 37074, 2823>>,
    <<61884, 50130, 30127, 58650>>, <<59176, 59592, 15411, 16500>>, <<38651, 63546, 4744, 17956>>, <<33185, 21663, 54871, 15781>>,
    <<24487, 34428, 44853, 57673>>, <<22168, 28206, 62445, 2331>>, <<37247, 7637, 63624, 27745>>, <<53773, 35976, 51455, 58975>>,
    <<12759, 7630, 25778, 49936>>, <<61797, 46471, 57225, 33168>>, <<42366, 25401, 56620, 62368>>, <<7926, 59099, 45462, 7881>>,
    <<28876, 29657, 3010, 28196>>, <<57882, 27445, 57100, 15063>>, <<58, 37848, 45696, 26978>>, <<7321, 57043, 15544, 37025>>,
    <<53041, 17886, 2781, 17033>>, <<53476, 17018, 21780, 64370>>, <<30662, 8652, 40883, 42115>>, <<26531, 19884, 17238, 21771>>,
    <<63702, 9898, 44839, 34057>> >>

\* Limb k, from bit b upwards, of the value left by hash ^= entry for each
\* entry POLYGLOT_RANDOM_ARRAY[indices[j]], starting from hash = 0: bit b is
\* set iff an odd number of the entries have it set.
RECURSIVE XorLimbs(_, _, _)
XorLimbs(indices, k, b) ==
    IF b = 16 THEN 0
    ELSE (Cardinality({j \in 1..Len(indices) :
              (POLYGLOT_RANDOM_ARRAY[indices[j] + 1][k] \div (2 ^ b)) % 2 = 1}) % 2)
             * (2 ^ b)
         + XorLimbs(indices, k, b + 1)

\* The uint64_t left by hash ^= POLYGLOT_RANDOM_ARRAY[index] for each index
\* of indices, starting from hash = 0.
XorEntries(indices) ==
    <<XorLimbs(indices, 1, 0), XorLimbs(indices, 2, 0),
      XorLimbs(indices, 3, 0), XorLimbs(indices, 4, 0)>>

\* Mutation: the white piece of each type comes before the black one.
HashPieces_white_first ==
    <<"P", "p", "N", "n", "B", "b", "R", "r", "Q", "q", "K", "k">>

\* const char *pieces = "pPnNbBrRqQkK"
HashPieces == <<"p", "P", "n", "N", "b", "B", "r", "R", "q", "Q", "k", "K">>

\* The board loop of __hash__ over the slots i .. of one 0x88 row: the table
\* indices of the entries XORed in, in order.
RECURSIVE HashRow(_, _)
HashRow(p, i) ==
    (IF Piece_is_valid(p.board[i])
     THEN <<64 * IndexOf(HashPieces, p.board[i])
               + 8 * Square_rank(from_x88_index(i))
               + Square_file(from_x88_index(i))>>
     ELSE <<>>)
    \o (IF i % 16 = 15 THEN <<>> ELSE HashRow(p, i + 1))

\* The board loop of __hash__ from slot i (a multiple of 16) to slot 127.
RECURSIVE HashBoard(_, _)
HashBoard(p, i) ==
    IF i >= 128 THEN <<>> ELSE HashRow(p, i) \o HashBoard(p, i + 16)

\* get_real_ep_square: the set of squares the call can return.  With white to
\* move the slots read are m_board[17] and m_board[15]; with black to move
\* they are m_board[-17] and m_board[-15], before the start of the array,
\* whose content is not determined by the position.
get_real_ep_square(p) ==
    LET Ready(offset) == /\ Piece_is_valid(p.board[offset])
                         /\ Piece_type(p.board[offset]) = "p"
                         /\ Piece_color(p.board[offset]) = p.turn
    IN  IF ~Square_is_valid(get_ep_square(p)) THEN {get_ep_square(p)}
        ELSE IF p.turn = "w"
        THEN (IF Ready(17) \/ Ready(15) THEN {get_ep_square(p)} ELSE {NullSquare})
        ELSE {get_ep_square(p), NullSquare}

\* The sets of m_board indices the loop of get_real_ep_square can read: the
\* second slot is read when the first holds no pawn of the side to move,
\* which for the slots before the array is not determined by the position.
get_real_ep_square_reads(p) ==
    LET Ready(offset) == /\ Piece_is_valid(p.board[offset])
                         /\ Piece_type(p.board[offset]) = "p"
                         /\ Piece_color(p.board[offset]) = p.turn
    IN  IF ~Square_is_valid(get_ep_square(p)) THEN {{}}
        ELSE IF p.turn = "w"
        THEN {IF Ready(17) THEN {17} ELSE {17, 15}}
        ELSE {{-17}, {-17, -15}}

\* __hash__, where get_real_ep_square returned ep_square.
Position_hash(p, ep_square) ==
    XorEntries(HashBoard(p, 0)
        \o (IF p.white_castle_kingside THEN <<768>> ELSE <<>>)
        \o (IF p.white_castle_queenside THEN <<768 + 1>> ELSE <<>>)
        \o (IF p.black_castle_kingside THEN <<768 + 2>> ELSE <<>>)
        \o (IF p.black_castle_queenside THEN <<768 + 3>> ELSE <<>>)
        \o (IF Square_is_valid(ep_square)
            THEN <<772 + Square_file(ep_square)>> ELSE <<>>)
        \o (IF p.turn = "w" THEN <<780>> ELSE <<>>))

\* ------------------------------------------------------------------------
\* PolyglotOpeningBookEntry (src/libchess/polyglot_opening_book_entry.cc):
\* a record [m_key, m_move, m_weight, m_learn].
\* ------------------------------------------------------------------------

\* PolyglotOpeningBookEntry(const Position&, const Move&, weight, learn),
\* where key is the value key.__hash__() returned.  The fields ORed into
\* m_move occupy disjoint bits (<< 0, << 3, << 6, << 9, << 12), so the OR is
\* their sum; it stays below 2^16.
EntryOfMove(key, move, weight, learn) ==
    [m_key |-> key,
     m_move |-> Square_file(move.target) + Square_rank(move.target) * 8
                + Square_file(move.source) * 64 + Square_rank(move.source) * 512
                + (CASE move.promotion = "q" -> 4 * 4096
                     [] move.promotion = "r" -> 3 * 4096
                     [] move.promotion = "b" -> 2 * 4096
                     [] move.promotion = "n" -> 1 * 4096
                     [] OTHER -> 0),
     m_weight |-> weight, m_learn |-> learn]

\* PolyglotOpeningBookEntry(uint64_t key, uint16_t move, weight, learn).
EntryOfRaw(key, move, weight, learn) ==
    [m_key |-> key, m_move |-> move, m_weight |-> weight, m_learn |-> learn]

\* PolyglotOpeningBookEntry::move: [err, move].  The castling replacements
\* are built with Move::from_uci on a string of four characters.
Entry_move(entry, indeterminate) ==
    LET source == Square((entry.m_move \div 512) % 8, (entry.m_move \div 64) % 8)
        target == Square((entry.m_move \div 8) % 8, entry.m_move % 8)
        code == (entry.m_move \div 4096) % 8
    IN  IF Square_name(source) = <<"e", "1">> /\ Square_name(target) = <<"h", "1">>
        THEN Move_from_uci(<<"e", "1", "g", "1">>, indeterminate)
        ELSE IF Square_name(source) = <<"e", "1">> /\ Square_name(target) = <<"a", "1">>
        THEN Move_from_uci(<<"e", "1", "c", "1">>, indeterminate)
        ELSE IF Square_name(source) = <<"e", "8">> /\ Square_name(target) = <<"h", "8">>
        THEN Move_from_uci(<<"e", "8", "g", "8">>, indeterminate)
        ELSE IF Square_name(source) = <<"e", "8">> /\ Square_name(target) = <<"a", "8">>
        THEN Move_from_uci(<<"e", "8", "c", "8">>, indeterminate)
        ELSE [err |-> "",
              move |-> CASE code = 4 -> MoveP(source, target, "q")
                         [] code = 3 -> MoveP(source, target, "r")
                         [] code = 2 -> MoveP(source, target, "b")
                         [] code = 1 -> MoveP(source, target, "n")
                         [] OTHER -> Move(source, target)]

\* ------------------------------------------------------------------------
\* Field setters and item assignment (src/libchess/position.cc).
\* Result: [err, pos]; pos holds the fields as the call leaves them.
\* ------------------------------------------------------------------------

FileLetters == {"a", "b", "c", "d", "e", "f", "g", "h"}

\* Py_None as an argument.
None == "None"

set_turn(p, turn) ==
    IF turn = "w" \/ turn = "b"
    THEN [err |-> "", pos |-> [p EXCEPT !.turn = turn]]
    ELSE [err |-> "turn", pos |-> p]

\* The switch: the case for '-' and 0 stores 0 and, having no break, runs on
\* into the default case, which throws.
set_ep_file(p, ep_file) ==
    IF ep_file \in FileLetters
    THEN [err |-> "", pos |-> [p EXCEPT !.ep_file = ep_file]]
    ELSE IF ep_file = "-" \/ ep_file = ""
    THEN [err |-> "ep_file", pos |-> [p EXCEPT !.ep_file = ""]]
    ELSE [err |-> "ep_file", pos |-> p]

python_set_ep_file(p, ep_file) ==
    IF ep_file = None
    THEN [err |-> "", pos |-> [p EXCEPT !.ep_file = ""]]
    ELSE set_ep_file(p, ep_file)

set_half_moves(p, half_moves) ==
    IF half_moves < 0 THEN [err |-> "half_moves", pos |-> p]
    ELSE [err |-> "", pos |-> [p EXCEPT !.half_moves = half_moves]]

set_ply(p, ply) ==
    IF ply < 1 THEN [err |-> "ply", pos |-> p]
    ELSE [err |-> "", pos |-> [p EXCEPT !.ply = ply]]

set_kingside_castling_right(p, color, castle) ==
    IF color = "w"
    THEN [err |-> "", pos |-> [p EXCEPT !.white_castle_kingside = castle]]
    ELSE IF color = "b"
    THEN [err |-> "", pos |-> [p EXCEPT !.black_castle_kingside = castle]]
    ELSE [err |-> "color", pos |-> p]

set_queenside_castling_right(p, color, castle) ==
    IF color = "w"
    THEN [err |-> "", pos |-> [p EXCEPT !.white_castle_queenside = castle]]
    ELSE IF color = "b"
    THEN [err |-> "", pos |-> [p EXCEPT !.black_castle_queenside = castle]]
    ELSE [err |-> "color", pos |-> p]

\* __setitem__ with a Square key.
setitem(p, square, piece) ==
    IF piece = None
    THEN [err |-> "", pos |-> [p EXCEPT !.board[x88_index(square)] = NullSymbol]]
    ELSE [err |-> "", pos |-> [p EXCEPT !.board[x88_index(square)] = piece]]

\* ------------------------------------------------------------------------
\* Games: a Position is constructed either by Position(), which resets it to
\* the initial position, or by Position(fen), which loads a FEN string.
\* ------------------------------------------------------------------------

\* 4k3/8/8/3pP3/8/8/8/4K3 w - d6 0 40: a pawn ending after ... d7d5: e5xd6 en passant is legal
StartEnPassant ==
    <<"4", "k", "3", "/", "8", "/", "8", "/", "3", "p", "P", "3", "/", "8", "/", "8", "/", "8", "/", "4", "K", "3", " ",
    "w", " ",
    "-", " ",
    "d", "6", " ",
    "0", " ",
    "4", "0">>

\* 7k/8/5K2/6Q1/8/8/8/8 w - - 0 50: queen ending: Qg7 mates, Qg6 stalemates
StartMate ==
    <<"7", "k", "/", "8", "/", "5", "K", "2", "/", "6", "Q", "1", "/", "8", "/", "8", "/", "8", "/", "8", " ",
    "w", " ",
    "-", " ",
    "-", " ",
    "0", " ",
    "5", "0">>

\* 4k3/8/8/8/8/4r3/4B3/4K3 w - - 0 40: the bishop on e2 is pinned by the rook on e3
StartPin ==
    <<"4", "k", "3", "/", "8", "/", "8", "/", "8", "/", "8", "/", "4", "r", "3", "/", "4", "B", "3", "/", "4", "K", "3", " ",
    "w", " ",
    "-", " ",
    "-", " ",
    "0", " ",
    "4", "0">>

\* 1n5k/P7/8/8/8/8/8/K7 w - - 0 60: the a7 pawn promotes by push or by capture on b8
StartPromotion ==
    <<"1", "n", "5", "k", "/", "P", "7", "/", "8", "/", "8", "/", "8", "/", "8", "/", "8", "/", "K", "7", " ",
    "w", " ",
    "-", " ",
    "-", " ",
    "0", " ",
    "6", "0">>

StartFens == {StartEnPassant, StartMate, StartPin, StartPromotion}

\* Opening lines played from the initial position, as source and target
\* squares (rank and file counted from 0, from a1).
\* 1. g3 b6 2. a3 Bb7 3. a4: the bishop on b7 looks at the rook on h1.
LineFianchetto ==
    << Move(Square(1, 6), Square(2, 6)), Move(Square(6, 1), Square(5, 1)),
       Move(Square(1, 0), Square(2, 0)), Move(Square(7, 2), Square(6, 1)),
       Move(Square(2, 0), Square(3, 0)) >>

\* 1. e4 a6 2. e5 d5: White may capture e5xd6 en passant.
LineEnPassant ==
    << Move(Square(1, 4), Square(3, 4)), Move(Square(6, 0), Square(5, 0)),
       Move(Square(3, 4), Square(4, 4)), Move(Square(6, 3), Square(4, 3)) >>

\* 1. e4 e5 2. Qh5 Nc6 3. Bc4 Nf6: White may mate with Qxf7.
LineScholar ==
    << Move(Square(1, 4), Square(3, 4)), Move(Square(6, 4), Square(4, 4)),
       Move(Square(0, 3), Square(4, 7)), Move(Square(7, 1), Square(5, 2)),
       Move(Square(0, 5), Square(3, 2)), Move(Square(7, 6), Square(5, 5)) >>

\* 1. d4 e6 2. Nc3 Bb4: the knight on c3 is pinned to the king.
LinePin ==
    << Move(Square(1, 3), Square(3, 3)), Move(Square(6, 4), Square(5, 4)),
       Move(Square(0, 1), Square(2, 2)), Move(Square(7, 5), Square(3, 1)) >>

\* 1. e4 e5 2. Nf3 Nf6 3. Bc4 Bc5: White may castle kingside.
LineCastle ==
    << Move(Square(1, 4), Square(3, 4)), Move(Square(6, 4), Square(4, 4)),
       Move(Square(0, 6), Square(2, 5)), Move(Square(7, 6), Square(5, 5)),
       Move(Square(0, 5), Square(3, 2)), Move(Square(7, 5), Square(4, 2)) >>

Lines ==
    {<<>>, LineFianchetto, LineEnPassant, LineScholar, LinePin, LineCastle}

\* ------------------------------------------------------------------------
\* State: the fields of one Position object; the record of the last call made
\* on it (operation, arguments, error thrown, MoveInfo returned); whether the
\* position was reached from the initial position by successful make_move
\* calls alone ("make_move") or otherwise ("any"); the moves of the opening
\* line still to be played; the number of calls made after the line.
\* ------------------------------------------------------------------------

VARIABLES m_board, m_turn, m_ep_file, m_half_moves, m_ply,
          m_white_castle_queenside, m_white_castle_kingside,
          m_black_castle_queenside, m_black_castle_kingside,
          last, reached, script, calls

fields == <<m_board, m_turn, m_ep_file, m_half_moves, m_ply,
            m_white_castle_queenside, m_white_castle_kingside,
            m_black_castle_queenside, m_black_castle_kingside>>

vars == <<m_board, m_turn, m_ep_file, m_half_moves, m_ply,
          m_white_castle_queenside, m_white_castle_kingside,
          m_black_castle_queenside, m_black_castle_kingside,
          last, reached, script, calls>>

\* The Position object as a value.
This ==
    [board |-> m_board, turn |-> m_turn, ep_file |-> m_ep_file,
     half_moves |-> m_half_moves, ply |-> m_ply,
     white_castle_queenside |-> m_white_castle_queenside,
     white_castle_kingside |-> m_white_castle_kingside,
     black_castle_queenside |-> m_black_castle_queenside,
     black_castle_kingside |-> m_black_castle_kingside]

\* The Position object after the step.
ThisNext ==
    [board |-> m_board', turn |-> m_turn', ep_file |-> m_ep_file',
     half_moves |-> m_half_moves', ply |-> m_ply',
     white_castle_queenside |-> m_white_castle_queenside',
     white_castle_kingside |-> m_white_castle_kingside',
     black_castle_queenside |-> m_black_castle_queenside',
     black_castle_kingside |-> m_black_castle_kingside']

Assign(p) ==
    /\ m_board' = p.board
    /\ m_turn' = p.turn
    /\ m_ep_file' = p.ep_file
    /\ m_half_moves' = p.half_moves
    /\ m_ply' = p.ply
    /\ m_white_castle_queenside' = p.white_castle_queenside
    /\ m_white_castle_kingside' = p.white_castle_kingside
    /\ m_black_castle_queenside' = p.black_castle_queenside
    /\ m_black_castle_kingside' = p.black_castle_kingside

Construct(p) ==
    /\ m_board = p.board
    /\ m_turn = p.turn
    /\ m_ep_file = p.ep_file
    /\ m_half_moves = p.half_moves
    /\ m_ply = p.ply
    /\ m_white_castle_queenside = p.white_castle_queenside
    /\ m_white_castle_kingside = p.white_castle_kingside
    /\ m_black_castle_queenside = p.black_castle_queenside
    /\ m_black_castle_kingside = p.black_castle_kingside

NoMove == Move(NullSquare, NullSquare)

Call(op, err, move, info, str, num) ==
    [op |-> op, err |-> err, move |-> move, info |-> info, str |-> str, num |-> num]

\* Position(): reset(), then an opening line and one more call.
InitDefault ==
    /\ Construct(reset)
    /\ last = Call("Position", "", NoMove, MoveInfo(NoMove, NullSymbol), <<>>, 0)
    /\ reached = "make_move"
    /\ script \in Lines
    /\ calls = MaxMoves - 1

\* Position(fen): set_fen(fen), then MaxMoves calls.
InitFen ==
    \E str \in StartFens :
        /\ Construct(set_fen(reset, str).pos)
        /\ last = Call("Position", "", NoMove, MoveInfo(NoMove, NullSymbol), str, 0)
        /\ reached = "any"
        /\ script = <<>>
        /\ calls = 0

Init == InitDefault \/ InitFen

\* Moves tried besides the pseudo-legal ones: from an empty square, of a
\* piece of the side not to move, the documentation's e8a1, a king leap.
ProbeMoves ==
    { Move(Square(3, 0), Square(4, 0)), Move(Square(7, 4), Square(0, 0)),
      Move(Square(7, 4), Square(6, 4)), Move(Square(0, 4), Square(2, 4)),
      MoveP(Square(0, 4), Square(1, 4), "q") }

SeqToSet(s) == {s[i] : i \in 1..Len(s)}

CandidateMoves(p) == SeqToSet(PseudoLegalMoves(p)) \cup ProbeMoves

\* The bookkeeping of a call that returned err: a move of the line is used
\* up; a call after the line is counted when it succeeds.
Played(err) ==
    /\ script' = IF script # <<>> THEN Tail(script) ELSE script
    /\ calls' = IF script = <<>> /\ err = "" THEN calls + 1 ELSE calls

\* A make_move or make_move_fast call that returned r = [err, pos, info];
\* make_move_fast hands no MoveInfo back.
Moved(op, move, r) ==
    /\ Assign(r.pos)
    /\ last' = Call(op, r.err, move,
                    IF op = "make_move" THEN r.info ELSE MoveInfo(move, NullSymbol),
                    <<>>, 0)
    /\ Played(r.err)

MakeMove(move) ==
    /\ reached' = reached
    /\ Moved("make_move", move, make_move(This, move))

MakeMoveFast(move) ==
    /\ reached' = "any"
    /\ Moved("make_move_fast", move, make_move_fast(This, move))

\* The moves tried after the opening line: every candidate while calls are
\* left.  An exception that reaches the caller ends the run.
MoveInputs ==
    IF last.err = "" /\ script = <<>> /\ calls < MaxMoves
    THEN CandidateMoves(This) ELSE {}

\* The opening line is played with make_move.
LineInputs == IF last.err = "" /\ script # <<>> THEN {Head(script)} ELSE {}

Next ==
    \/ \E move \in LineInputs \cup MoveInputs : MakeMove(move)
    \/ \E move \in MoveInputs : MakeMoveFast(move)

Spec == Init /\ [][Next]_vars

\* ------------------------------------------------------------------------
\* SpecApi: one Position object driven through its public interface: reset,
\* the fen setter, the field setters, item assignment and make_move.
\* ------------------------------------------------------------------------

\* Number of calls made on the object (a failed make_move is not counted).
MaxCalls == 2

\* 4k3/8/8/8/8/8/8/4K3 w - e6 0 1: accepted; names an en-passant square behind which no pawn stands
FenEpWithoutPawn ==
    <<"4", "k", "3", "/", "8", "/", "8", "/", "8", "/", "8", "/", "8", "/",
      "8", "/", "4", "K", "3", " ", "w", " ", "-", " ", "e", "6", " ", "0",
      " ", "1">>

\* 4k3/8/8/8/8/8/8/4K3 b - - 99999999999 1: every field passes the checks; the halfmove number does not fit an int
FenHalfMovesOverflow ==
    <<"4", "k", "3", "/", "8", "/", "8", "/", "8", "/", "8", "/", "8", "/",
      "8", "/", "4", "K", "3", " ", "b", " ", "-", " ", "-", " ", "9", "9",
      "9", "9", "9", "9", "9", "9", "9", "9", "9", " ", "1">>

\* 4k3/8/8/8/8/8/8/4K3 b - - 7 2147483648: every field passes the checks; the fullmove number is INT_MAX + 1
FenPlyOverflow ==
    <<"4", "k", "3", "/", "8", "/", "8", "/", "8", "/", "8", "/", "8", "/",
      "8", "/", "4", "K", "3", " ", "b", " ", "-", " ", "-", " ", "7", " ",
      "2", "1", "4", "7", "4", "8", "3", "6", "4", "8">>

\* 4k3/8/8/8/8/8/8/4K3 w - - 0: rejected: five fields
FenFiveFields ==
    <<"4", "k", "3", "/", "8", "/", "8", "/", "8", "/", "8", "/", "8", "/",
      "8", "/", "4", "K", "3", " ", "w", " ", "-", " ", "-", " ", "0">>

\* 4k4/8/8/8/8/8/8/4K3 w - - 0 1: rejected: a row of nine squares
FenLongRow ==
    <<"4", "k", "4", "/", "8", "/", "8", "/", "8", "/", "8", "/", "8", "/",
      "8", "/", "4", "K", "3", " ", "w", " ", "-", " ", "-", " ", "0", " ",
      "1">>

\* 4k3/8/8/8/8/8/8/4K3 w - - 0 0: rejected: fullmove number 0
FenZeroPly ==
    <<"4", "k", "3", "/", "8", "/", "8", "/", "8", "/", "8", "/", "8", "/",
      "8", "/", "4", "K", "3", " ", "w", " ", "-", " ", "-", " ", "0", " ",
      "0">>

FenInputs ==
    StartFens \cup {FenEpWithoutPawn, FenHalfMovesOverflow, FenPlyOverflow,
                    FenFiveFields, FenLongRow, FenZeroPly}

TurnInputs == {"w", "b", "x"}

\* Characters handed to set_ep_file; "" is the character 0.
EpFileInputs == {"a", "e", "h", "", "-", "x"}

PythonEpFileInputs == {None, "d", "-"}

HalfMovesInputs == {-1, 0, 3}

PlyInputs == {0, 1, 7}

ColorInputs == {"w", "b", "x"}

\* Squares assigned to: d5, e5, e4.
ItemSquares == {Square(4, 3), Square(4, 4), Square(3, 4)}

ItemPieces == {None, "P", "p", "R"}

InitApi ==
    /\ Construct(reset)
    /\ last = Call("Position", "", NoMove, MoveInfo(NoMove, NullSymbol), <<>>, 0)
    /\ reached = "make_move"
    /\ script = <<>>
    /\ calls = 0

\* A call other than make_move that returned r = [err, pos].
Returned(op, r, str, num) ==
    /\ Assign(r.pos)
    /\ last' = Call(op, r.err, NoMove, MoveInfo(NoMove, NullSymbol), str, num)
    /\ reached' = "any"
    /\ script' = script
    /\ calls' = calls + 1

Reset ==
    /\ calls < MaxCalls
    /\ Returned("reset", [err |-> "", pos |-> reset], <<>>, 0)

SetFen(str) ==
    /\ calls < MaxCalls
    /\ Returned("set_fen", set_fen(This, str), str, 0)

SetTurn(turn) ==
    /\ calls < MaxCalls
    /\ Returned("set_turn", set_turn(This, turn), <<turn>>, 0)

SetEpFile(ep_file) ==
    /\ calls < MaxCalls
    /\ Returned("set_ep_file", set_ep_file(This, ep_file), <<ep_file>>, 0)

PythonSetEpFile(ep_file) ==
    /\ calls < MaxCalls
    /\ Returned("python_set_ep_file", python_set_ep_file(This, ep_file),
                <<ep_file>>, 0)

SetHalfMoves(half_moves) ==
    /\ calls < MaxCalls
    /\ Returned("set_half_moves", set_half_moves(This, half_moves),
                <<>>, half_moves)

SetPly(ply) ==
    /\ calls < MaxCalls
    /\ Returned("set_ply", set_ply(This, ply), <<>>, ply)

SetKingsideCastlingRight(color, castle) ==
    /\ calls < MaxCalls
    /\ Returned("set_kingside_castling_right",
                set_kingside_castling_right(This, color, castle),
                <<color>>, IF castle THEN 1 ELSE 0)

SetQueensideCastlingRight(color, castle) ==
    /\ calls < MaxCalls
    /\ Returned("set_queenside_castling_right",
                set_queenside_castling_right(This, color, castle),
                <<color>>, IF castle THEN 1 ELSE 0)

SetItem(square, piece) ==
    /\ calls < MaxCalls
    /\ Returned("setitem", setitem(This, square, piece), <<piece>>, square)

\* make_move is tried where both kings are on the board: without the king
\* of the side to move the legality test has no square to test.
ApiMoveInputs ==
    IF /\ calls < MaxCalls
       /\ get_king(This, "w") # NullSquare
       /\ get_king(This, "b") # NullSquare
    THEN CandidateMoves(This) ELSE {}

NextApi ==
    \/ Reset
    \/ \E str \in FenInputs : SetFen(str)
    \/ \E turn \in TurnInputs : SetTurn(turn)
    \/ \E ep_file \in EpFileInputs : SetEpFile(ep_file)
    \/ \E ep_file \in PythonEpFileInputs : PythonSetEpFile(ep_file)
    \/ \E half_moves \in HalfMovesInputs : SetHalfMoves(half_moves)
    \/ \E ply \in PlyInputs : SetPly(ply)
    \/ \E color \in ColorInputs, castle \in BOOLEAN :
          SetKingsideCastlingRight(color, castle)
    \/ \E color \in ColorInputs, castle \in BOOLEAN :
          SetQueensideCastlingRight(color, castle)
    \/ \E square \in ItemSquares, piece \in ItemPieces : SetItem(square, piece)
    \/ \E move \in ApiMoveInputs : MakeMove(move)

SpecApi == InitApi /\ [][NextApi]_vars

\* ------------------------------------------------------------------------
\* Games played in SAN: Position(), then make_move_from_san calls, first along
\* a line of SAN strings, then with strings of SanInputs.
\* ------------------------------------------------------------------------

\* Number of successful make_move_from_san calls explored after a line.
MaxSans == 2

\* e4 e5 Qh5 Nc6 Bc4 Nf6 Qxf7
SanScholar ==
    << <<"e", "4">>, <<"e", "5">>, <<"Q", "h", "5">>, <<"N", "c", "6">>,
       <<"B", "c", "4">>, <<"N", "f", "6">>, <<"Q", "x", "f", "7">> >>

\* e4 e5 Nf3 Nc6 Bc4 Bc5
SanItalian ==
    << <<"e", "4">>, <<"e", "5">>, <<"N", "f", "3">>, <<"N", "c", "6">>,
       <<"B", "c", "4">>, <<"B", "c", "5">> >>

\* e4 a6 e5 d5
SanAdvance ==
    << <<"e", "4">>, <<"a", "6">>, <<"e", "5">>, <<"d", "5">> >>

SanLines == {<<>>, SanScholar, SanItalian, SanAdvance}

SanInputs ==
    { <<"e", "4">>, <<"d", "4">>, <<"N", "f", "3">>, <<"N", "c", "3">>,
      <<"e", "5">>, <<"d", "5">>, <<"N", "f", "6">>, <<"N", "c", "6">>,
      <<"O", "-", "O">>, <<"O", "-", "O", "-", "O">>,
      <<"e", "x", "d", "6">>,
      <<"e", "x", "d", "6", " ", "(", "e", ".", "p", ".", ")">>,
      <<"B", "x", "f", "7", "+">>, <<"N", "g", "1", "e", "2">>,
      <<"Q", "x", "f", "7", "#">>, <<"e", "9">>, <<"e", "8", "=", "Q">>, <<>> }

InitSan ==
    /\ Construct(reset)
    /\ last = Call("Position", "", NoMove, MoveInfo(NoMove, NullSymbol), <<>>, 0)
    /\ reached = "make_move"
    /\ script \in SanLines
    /\ calls = 0

\* make_move_from_san(san) returning or throwing.
MakeMoveFromSan(san) ==
    LET Made(r) ==
            /\ Assign(r.pos)
            /\ last' = Call("make_move_from_san", r.err, r.move, r.info, san, 0)
            /\ Played(r.err)
    IN  /\ reached' = reached
        /\ Made(make_move_from_san(This, san))

SanLineInputs == IF last.err = "" /\ script # <<>> THEN {Head(script)} ELSE {}

SanFreeInputs ==
    IF last.err = "" /\ script = <<>> /\ calls < MaxSans THEN SanInputs ELSE {}

NextSan == \E san \in SanLineInputs \cup SanFreeInputs : MakeMoveFromSan(san)

SpecSan == InitSan /\ [][NextSan]_vars

\* ------------------------------------------------------------------------
\* Endings set up by hand: Position(fen) with the two kings, then pieces put
\* on the board with position[square] = piece.
\* ------------------------------------------------------------------------

\* 4k3/8/8/8/8/8/8/4K3 w - - 0 1
FenKings ==
    <<"4", "k", "3", "/", "8", "/", "8", "/", "8", "/", "8", "/", "8", "/",
      "8", "/", "4", "K", "3", " ", "w", " ", "-", " ", "-", " ", "0",
      " ", "1">>

\* a1, a2, b2
MaterialSquares == {Square(0, 0), Square(1, 0), Square(1, 1)}

MaterialPieces == {None, "B", "b", "N", "n", "P", "q", "R"}

InitMaterial ==
    /\ Construct(set_fen(reset, FenKings).pos)
    /\ last = Call("Position", "", NoMove, MoveInfo(NoMove, NullSymbol), FenKings, 0)
    /\ reached = "any"
    /\ script = <<>>
    /\ calls = 0

NextMaterial ==
    \E square \in MaterialSquares, piece \in MaterialPieces : SetItem(square, piece)

SpecMaterial == InitMaterial /\ [][NextMaterial]_vars

\* ------------------------------------------------------------------------
\* Hashing: Position(), an opening line played with make_move, and at any
\* point hash(position), set_fen(START_FEN) or a change of the counters.
\* ------------------------------------------------------------------------

\* rnbqkbnr/pppppppp/8/8/8/8/PPPPPPPP/RNBQKBNR w KQkq - 0 1
START_FEN ==
    <<"r", "n", "b", "q", "k", "b", "n", "r", "/", "p", "p", "p", "p", "p",
      "p", "p", "p", "/", "8", "/", "8", "/", "8", "/", "8", "/", "P", "P",
      "P", "P", "P", "P", "P", "P", "/", "R", "N", "B", "Q", "K", "B", "N",
      "R", " ", "w", " ", "K", "Q", "k", "q", " ", "-", " ", "0", " ", "1">>

InitHash ==
    /\ Construct(reset)
    /\ last = Call("Position", "", NoMove, MoveInfo(NoMove, NullSymbol), <<>>, 0)
    /\ reached = "make_move"
    /\ script \in {<<>>, LineEnPassant}
    /\ calls = 0

\* hash(position): the position is left as it is; the value returned is
\* recorded in last.num.
Hash ==
    /\ last.op # "__hash__"
    /\ \E ep_square \in get_real_ep_square(This) :
           last' = Call("__hash__", "", NoMove, MoveInfo(NoMove, NullSymbol),
                        <<>>, Position_hash(This, ep_square))
    /\ UNCHANGED <<fields, reached, script, calls>>

NextHash ==
    \/ \E move \in LineInputs : MakeMove(move)
    \/ Hash
    \/ SetFen(START_FEN)
    \/ \E half_moves \in HalfMovesInputs : SetHalfMoves(half_moves)
    \/ \E ply \in PlyInputs : SetPly(ply)

SpecHash == InitHash /\ [][NextHash]_vars

\* ------------------------------------------------------------------------
\* SpecUci: Move objects built with Move.from_uci and printed with uci();
\* last holds the Move built (move), the string given or printed (str).
\* ------------------------------------------------------------------------

UciSquares == {Square(1, 4), Square(3, 4), Square(6, 0), Square(7, 7)}

UciSuffixes == {<<>>, <<"q">>, <<"n">>, <<"b">>, <<"r">>, <<"k">>, <<"q", "q">>}

UciInputs ==
    {Square_name(source) \o Square_name(target) \o suffix :
         source \in UciSquares, target \in UciSquares, suffix \in UciSuffixes}
    \cup {<<>>, <<"e", "2", "e">>, <<"e", "2", "i", "9">>, <<"e", "0", "e", "4", "q">>}

\* The values a char that was never assigned may hold: 0, a promotion
\* letter, any other character.
IndeterminateChars == {"", "q", "?"}

InitUci == InitApi

FromUci(uci) ==
    /\ calls < MaxCalls
    /\ \E indeterminate \in IndeterminateChars :
          LET Built(r) ==
                  last' = Call("from_uci", r.err, r.move, MoveInfo(NoMove, NullSymbol),
                               uci, 0)
          IN  Built(Move_from_uci(uci, indeterminate))
    /\ calls' = calls + 1
    /\ UNCHANGED <<fields, reached, script>>

\* uci() on the Move the last from_uci call returned.
Uci ==
    /\ last.op = "from_uci"
    /\ last.err = ""
    /\ last' = Call("uci", "", last.move, MoveInfo(NoMove, NullSymbol),
                    Move_uci(last.move), 0)
    /\ UNCHANGED <<fields, reached, script, calls>>

NextUci ==
    \/ \E uci \in UciInputs : FromUci(uci)
    \/ Uci

SpecUci == InitUci /\ [][NextUci]_vars

\* ------------------------------------------------------------------------
\* SpecBook: opening-book entries built from the positions of a game and a
\* move, or from a packed move, and decoded with move(); last.num holds the
\* entry.
\* ------------------------------------------------------------------------

\* 1. e4 e5 2. Nf3 Nf6 3. Bc4 Bc5 4. O-O: Black may castle kingside.
LineBothCastle == LineCastle \o <<Move(Square(0, 4), Square(0, 6))>>

\* The four castling moves of the king, a pawn move, a promotion.
BookMoves ==
    { Move(Square(0, 4), Square(0, 6)), Move(Square(0, 4), Square(0, 2)),
      Move(Square(7, 4), Square(7, 6)), Move(Square(7, 4), Square(7, 2)),
      Move(Square(1, 4), Square(3, 4)), MoveP(Square(6, 0), Square(7, 0), "q") }

\* The packed move of the format: target file in bits 0-2, target rank in
\* bits 3-5, source file in bits 6-8, source rank in bits 9-11, promotion
\* code in bits 12-14.
PackedMove(source, target, code) ==
    Square_file(target) + 8 * Square_rank(target)
    + 64 * Square_file(source) + 512 * Square_rank(source) + 4096 * code

\* Castling as king-takes-rook, the king's own two-file moves, a pawn move,
\* promotions to a queen and with code 5.
RawMoves ==
    { PackedMove(Square(0, 4), Square(0, 7), 0), PackedMove(Square(0, 4), Square(0, 0), 0),
      PackedMove(Square(7, 4), Square(7, 7), 0), PackedMove(Square(7, 4), Square(7, 0), 0),
      PackedMove(Square(0, 4), Square(0, 6), 0), PackedMove(Square(7, 4), Square(7, 2), 0),
      PackedMove(Square(1, 4), Square(3, 4), 0),
      PackedMove(Square(6, 0), Square(7, 0), 4), PackedMove(Square(6, 0), Square(7, 0), 5) }

InitBook ==
    /\ Construct(reset)
    /\ last = Call("Position", "", NoMove, MoveInfo(NoMove, NullSymbol), <<>>, 0)
    /\ reached = "make_move"
    /\ script \in {<<>>, LineBothCastle}
    /\ calls = 0

\* PolyglotOpeningBookEntry(position, move, 1, 0).
NewEntry(move) ==
    /\ last.op \in {"Position", "make_move"}
    /\ last.err = ""
    /\ \E ep_square \in get_real_ep_square(This) :
           last' = Call("PolyglotOpeningBookEntry", "", move,
                        MoveInfo(NoMove, NullSymbol), <<>>,
                        EntryOfMove(Position_hash(This, ep_square), move, 1, 0))
    /\ UNCHANGED <<fields, reached, script, calls>>

\* PolyglotOpeningBookEntry(0, move, 1, 0) with a packed move.
NewRawEntry(move) ==
    /\ last.op \in {"Position", "make_move"}
    /\ last.err = ""
    /\ last' = Call("PolyglotOpeningBookEntry(raw)", "", NoMove,
                    MoveInfo(NoMove, NullSymbol), <<>>,
                    EntryOfRaw(<<0, 0, 0, 0>>, move, 1, 0))
    /\ UNCHANGED <<fields, reached, script, calls>>

\* entry.move on the entry built last.
EntryMove ==
    /\ last.op \in {"PolyglotOpeningBookEntry", "PolyglotOpeningBookEntry(raw)"}
    /\ \E indeterminate \in IndeterminateChars :
           LET Decoded(r) ==
                   last' = Call("move", r.err, r.move, MoveInfo(NoMove, NullSymbol),
                                <<>>, last.num)
           IN  Decoded(Entry_move(last.num, indeterminate))
    /\ UNCHANGED <<fields, reached, script, calls>>

NextBook ==
    \/ \E move \in LineInputs : MakeMove(move)
    \/ \E move \in BookMoves : NewEntry(move)
    \/ \E move \in RawMoves : NewRawEntry(move)
    \/ EntryMove

SpecBook == InitBook /\ [][NextBook]_vars

\* ------------------------------------------------------------------------
\* SpecCastle: games that lead to a castling with the king in check or the
\* rook gone, continued by every move as in Spec.
\* ------------------------------------------------------------------------

\* 1. e4 e5 2. Nf3 Nf6 3. Bc4 Nxe4 4. d3 Bb4+: White is in check, f1 and g1
\* are empty and not attacked.
LineCheckCastle ==
    << Move(Square(1, 4), Square(3, 4)), Move(Square(6, 4), Square(4, 4)),
       Move(Square(0, 6), Square(2, 5)), Move(Square(7, 6), Square(5, 5)),
       Move(Square(0, 5), Square(3, 2)), Move(Square(5, 5), Square(3, 4)),
       Move(Square(1, 3), Square(2, 3)), Move(Square(7, 5), Square(3, 1)) >>

\* 1. g3 b6 2. Bh3 Bb7 3. Nf3 a6 4. Nh4 Bxh1: the bishop stands where
\* White's king's rook stood, f1 and g1 are empty.
LineRookTaken ==
    << Move(Square(1, 6), Square(2, 6)), Move(Square(6, 1), Square(5, 1)),
       Move(Square(0, 5), Square(2, 7)), Move(Square(7, 2), Square(6, 1)),
       Move(Square(0, 6), Square(2, 5)), Move(Square(6, 0), Square(5, 0)),
       Move(Square(2, 5), Square(3, 7)), Move(Square(6, 1), Square(0, 7)) >>

InitCastle ==
    /\ Construct(reset)
    /\ last = Call("Position", "", NoMove, MoveInfo(NoMove, NullSymbol), <<>>, 0)
    /\ reached = "make_move"
    /\ script \in {LineCheckCastle, LineRookTaken, LineCastle}
    /\ calls = MaxMoves - 1

SpecCastle == InitCastle /\ [][Next]_vars

\* ------------------------------------------------------------------------
\* SpecGame: games played from the initial position with make_move along
\* the opening lines, continued by every move as in Spec.
\* ------------------------------------------------------------------------

\* 1. h4 g5 2. hxg5 Nf6 3. gxf6 a6 4. fxe7 a5: the pawn on e7 may promote by
\* capturing on d8 or f8.
LinePromotion ==
    << Move(Square(1, 7), Square(3, 7)), Move(Square(6, 6), Square(4, 6)),
       Move(Square(3, 7), Square(4, 6)), Move(Square(7, 6), Square(5, 5)),
       Move(Square(4, 6), Square(5, 5)), Move(Square(6, 0), Square(5, 0)),
       Move(Square(5, 5), Square(6, 4)), Move(Square(5, 0), Square(4, 0)) >>

GameLines ==
    Lines \cup {LineCheckCastle, LineRookTaken, LineBothCastle, LinePromotion}

InitGame ==
    /\ Construct(reset)
    /\ last = Call("Position", "", NoMove, MoveInfo(NoMove, NullSymbol), <<>>, 0)
    /\ reached = "make_move"
    /\ script \in GameLines
    /\ calls = MaxMoves - 1

SpecGame == InitGame /\ [][Next]_vars

\* ------------------------------------------------------------------------
\* SpecGen: one move generator object on a position set by set_fen.  The
\* object is kept in last.num: kind ("pl" for a PseudoLegalMoveGenerator,
\* "lg" for a LegalMoveGenerator), its fields, the moves next() has returned
\* since the last __iter__, whether only has_more and next have been called
\* since the last __iter__, and the last results of __len__ (count) and of the
\* Boolean methods (flag).  The position is the copy the generator took.
\* ------------------------------------------------------------------------

MaxGenCalls == 4

\* 4k3/8/8/8/8/8/8/K7 w K - 0 1: White holds the kingside right, the king
\* stands on a1.
StartDisplaced ==
    <<"4", "k", "3", "/", "8", "/", "8", "/", "8", "/", "8", "/", "8", "/", "8", "/", "K", "7", " ",
    "w", " ",
    "K", " ",
    "-", " ",
    "0", " ",
    "1">>

\* 7k/5Q2/5K2/8/8/8/8/8 b - - 0 50: Black is stalemated.
StartStalemate ==
    <<"7", "k", "/", "5", "Q", "2", "/", "5", "K", "2", "/", "8", "/", "8", "/", "8", "/", "8", "/", "8", " ",
    "b", " ",
    "-", " ",
    "-", " ",
    "0", " ",
    "5", "0">>

GenFens == {StartPin, StartStalemate, StartDisplaced}

\* Arguments of __contains__: Ke1-d1, the pinned Be2-d3, a1-a2, e1-g1, h8-g8.
ContainsInputs ==
    { Move(Square(0, 4), Square(0, 3)), Move(Square(1, 4), Square(2, 3)),
      Move(Square(0, 0), Square(1, 0)), Move(Square(0, 4), Square(0, 6)),
      Move(Square(7, 7), Square(7, 6)) }

NewGenerator(kind) ==
    [kind |-> kind, pl |-> PseudoLegalMoveGenerator, lg |-> LegalMoveGenerator,
     yielded |-> <<>>, iterating |-> FALSE, count |-> -1, flag |-> FALSE]

InitGen ==
    \E str \in GenFens, kind \in {"pl", "lg"} :
        /\ Construct(set_fen(reset, str).pos)
        /\ last = Call("Position", "", NoMove, MoveInfo(NoMove, NullSymbol), str,
                       NewGenerator(kind))
        /\ reached = "any"
        /\ script = <<>>
        /\ calls = 0

\* The call `op` on the generator has ended with `err` and left the object g.
Generated(kind, op, err, move, g) ==
    /\ calls < MaxGenCalls
    /\ last.num.kind = kind
    /\ last' = Call(op, err, move, MoveInfo(NoMove, NullSymbol), last.str, g)
    /\ calls' = calls + 1
    /\ UNCHANGED <<m_board, m_turn, m_ep_file, m_half_moves, m_ply,
                   m_white_castle_queenside, m_white_castle_kingside,
                   m_black_castle_queenside, m_black_castle_kingside,
                   reached, script>>

PlIter ==
    Generated("pl", "pl.__iter__", "", NoMove,
              [last.num EXCEPT !.pl = Pseudo_iter(last.num.pl),
                               !.yielded = <<>>, !.iterating = TRUE])

PlHasMore ==
    LET r == Pseudo_has_more(This, last.num.pl)
    IN  Generated("pl", "pl.has_more", "", NoMove,
                  [last.num EXCEPT !.pl = r.gen, !.flag = r.result])

PlNext ==
    LET r == Pseudo_next(This, last.num.pl)
    IN  Generated("pl", "pl.next", r.err, r.move,
                  [last.num EXCEPT !.pl = r.gen,
                                   !.yielded = IF r.err = "" THEN Append(@, r.move) ELSE @])

PlLen ==
    LET r == Pseudo_len(This, last.num.pl)
    IN  Generated("pl", "pl.__len__", "", NoMove,
                  [last.num EXCEPT !.pl = r.gen, !.count = r.result, !.iterating = FALSE])

PlNonzero ==
    LET r == Pseudo_nonzero(This, last.num.pl)
    IN  Generated("pl", "pl.__nonzero__", "", NoMove,
                  [last.num EXCEPT !.pl = r.gen, !.flag = r.result, !.iterating = FALSE])

PlContains(move) ==
    LET r == Pseudo_contains_pop(This, last.num.pl, move)
    IN  Generated("pl", "pl.__contains__", "", move,
                  [last.num EXCEPT !.pl = r.gen, !.flag = r.result, !.iterating = FALSE])

LgIter ==
    Generated("lg", "lg.__iter__", "", NoMove,
              [last.num EXCEPT !.lg = Legal_iter(last.num.lg),
                               !.yielded = <<>>, !.iterating = TRUE])

LgHasMore ==
    LET r == Legal_has_more(This, last.num.lg)
    IN  Generated("lg", "lg.has_more", r.err, NoMove,
                  [last.num EXCEPT !.lg = r.gen, !.flag = r.result])

LgNext ==
    LET r == Legal_next(This, last.num.lg)
    IN  Generated("lg", "lg.next", r.err, r.move,
                  [last.num EXCEPT !.lg = r.gen,
                                   !.yielded = IF r.err = "" THEN Append(@, r.move) ELSE @])

LgLen ==
    LET r == Legal_len(This, last.num.lg)
    IN  Generated("lg", "lg.__len__", r.err, NoMove,
                  [last.num EXCEPT !.lg = r.gen, !.count = r.result, !.iterating = FALSE])

LgNonzero ==
    LET r == Legal_nonzero(This, last.num.lg)
    IN  Generated("lg", "lg.__nonzero__", r.err, NoMove,
                  [last.num EXCEPT !.lg = r.gen, !.flag = r.result, !.iterating = FALSE])

LgContains(move) ==
    LET r == Legal_contains_pop(This, last.num.lg, move)
    IN  Generated("lg", "lg.__contains__", r.err, move,
                  [last.num EXCEPT !.lg = r.gen, !.flag = r.result, !.iterating = FALSE])

NextGen ==
    \/ PlIter
    \/ PlHasMore
    \/ PlNext
    \/ PlLen
    \/ PlNonzero
    \/ \E move \in ContainsInputs : PlContains(move)
    \/ LgIter
    \/ LgHasMore
    \/ LgNext
    \/ LgLen
    \/ LgNonzero
    \/ \E move \in ContainsInputs : LgContains(move)

SpecGen == InitGen /\ [][NextGen]_vars

\* ------------------------------------------------------------------------
\* Properties
\* ------------------------------------------------------------------------

\* The king of `color` is attacked in p after the unvalidated applier has
\* applied move to a clone of p.
KingAttackedAfter(p, move, color) ==
    is_king_attacked(make_unvalidated_move_fast(p, move).pos, color)

C2_MoverKingSafe ==
    (last.op = "make_move" /\ last.err = "")
        => ~is_king_attacked(This, opposite_color(m_turn))

\* C2 witness: a second successful make_move in a row, in which the mover
\* moved the king itself, and the king is not attacked where it now stands.
C2_Witness ==
    /\ last.op = "make_move" /\ last.err = ""
    /\ calls >= 2
    /\ Piece_type(last.info.piece) = "k"
    /\ ~is_king_attacked(This, opposite_color(m_turn))

\* C3: make_move and make_move_fast called with a move outside the legal-move
\* set fail with invalid argument "move" and change no field of the position.
C3_IllegalMoveRejected ==
    [][last'.op \in {"make_move", "make_move_fast"}
          => \/ last'.err = "move" /\ ThisNext = This
             \/ last'.move \in SeqToSet(LegalMoves(This))]_vars

\* C3 witness: a call rejected after a move has been made.
C3_Witness ==
    /\ last.op \in {"make_move", "make_move_fast"}
    /\ last.err = "move"
    /\ calls >= 1

C5_CastlingRightsNeedKingAndRook ==
    reached = "make_move" =>
    /\ m_white_castle_kingside => could_have_kingside_castling_right(This, "w")
    /\ m_white_castle_queenside => could_have_queenside_castling_right(This, "w")
    /\ m_black_castle_kingside => could_have_kingside_castling_right(This, "b")
    /\ m_black_castle_queenside => could_have_queenside_castling_right(This, "b")

PawnCount(p, color) == CountSymbol(p, {from_color_and_type(color, "p")})

\* C6: a pawn moving diagonally onto an empty square with make_move removes
\* the opposing pawn on the target's file and the mover's source rank, puts
\* the mover's pawn on the target, reports the removed pawn as captured with
\* is_enpassant set, lowers the opponent's pawn count by one and changes no
\* other square.
C6_EnPassantCapture ==
    [][(/\ last'.op = "make_move" /\ last'.err = ""
        /\ Piece_type(get(This, last'.move.source)) = "p"
        /\ Square_file(last'.move.source) # Square_file(last'.move.target)
        /\ ~Piece_is_valid(get(This, last'.move.target)))
          => LET m == last'.move
                 pawn == get(This, m.source)
                 victim == from_color_and_type(opposite_color(m_turn), "p")
                 behind == Square(Square_rank(m.source), Square_file(m.target))
             IN  /\ m.target = get_ep_square(This)
                 /\ get(This, behind) = victim
                 /\ get(ThisNext, behind) = NullSymbol
                 /\ get(ThisNext, m.target) = pawn
                 /\ get(ThisNext, m.source) = NullSymbol
                 /\ last'.info.captured = victim
                 /\ last'.info.is_enpassant
                 /\ PawnCount(ThisNext, m_turn') = PawnCount(This, m_turn') - 1
                 /\ \A i \in 0..127 :
                       i \notin {x88_index(m.source), x88_index(m.target),
                                 x88_index(behind)}
                          => m_board'[i] = m_board[i]]_vars

\* C6 witness: an en-passant capture has been made.
C6_Witness ==
    /\ last.op = "make_move" /\ last.err = ""
    /\ last.info.is_enpassant
    /\ Piece_type(last.info.captured) = "p"

\* C7: for every position reached through the public interface, loading
\* the FEN string of the position into a fresh object succeeds, gives a
\* position equal in every field, and that position renders to the same
\* string.
C7_FenRoundTrip ==
    LET Same(str, r) == /\ r.err = ""
                        /\ r.pos = This
                        /\ fen(r.pos) = str
        Parsed(str) == Same(str, set_fen(reset, str))
    IN  Parsed(fen(This))

\* C8: a set_fen call either succeeds, and then every field is the one the
\* string gives to any object, or fails, and then every field is as before
\* the call.
C8_SetFenAllOrNothing ==
    [][last'.op = "set_fen"
          => \/ last'.err = "" /\ ThisNext = set_fen(reset, last'.str).pos
             \/ last'.err # "" /\ ThisNext = This]_vars

DomainInv ==
    /\ m_turn \in {"w", "b"}
    /\ m_half_moves >= 0
    /\ m_ply >= 1
    /\ m_ep_file \in FileLetters \cup {""}

\* A setter called with a value outside the domain of its field fails with
\* the field's error and leaves the field as it was.
SetterRejects ==
    /\ (last'.op = "set_turn" /\ last'.str[1] \notin {"w", "b"})
          => (last'.err = "turn" /\ m_turn' = m_turn)
    /\ (last'.op = "set_half_moves" /\ last'.num < 0)
          => (last'.err = "half_moves" /\ m_half_moves' = m_half_moves)
    /\ (last'.op = "set_ply" /\ last'.num < 1)
          => (last'.err = "ply" /\ m_ply' = m_ply)
    /\ (last'.op = "set_ep_file" /\ last'.str[1] \notin FileLetters \cup {""})
          => (last'.err = "ep_file" /\ m_ep_file' = m_ep_file)
    /\ (last'.op = "python_set_ep_file"
          /\ last'.str[1] \notin FileLetters \cup {None})
          => (last'.err = "ep_file" /\ m_ep_file' = m_ep_file)

\* C9: turn is 'w' or 'b', half_moves >= 0, ply >= 1 and ep_file is 0 or a
\* file letter in every state, and a setter called with a value outside its
\* domain fails with the field's error and leaves the field unchanged.
C9_FieldDomains == []DomainInv /\ [][SetterRejects]_vars

\* C10: set_ep_file stores a file letter or the value 0 without an error, and
\* rejects every other value with "ep_file" leaving ep_file as it was; the
\* Python setter does the same with None standing for 0.
C10_SetEpFile ==
    [][/\ last'.op = "set_ep_file" =>
            IF last'.str[1] \in FileLetters \cup {""}
            THEN last'.err = "" /\ m_ep_file' = last'.str[1]
            ELSE last'.err = "ep_file" /\ m_ep_file' = m_ep_file
       /\ last'.op = "python_set_ep_file" =>
            IF last'.str[1] \in FileLetters \cup {None}
            THEN /\ last'.err = ""
                 /\ m_ep_file' = IF last'.str[1] = None THEN "" ELSE last'.str[1]
            ELSE last'.err = "ep_file" /\ m_ep_file' = m_ep_file]_vars

\* C11: SAN round trip.  For a position reached from the initial position by
\* make_move calls and a legal move of it, parsing in that position the SAN
\* string make_move returned for the move succeeds and yields that move.
C11_SanRoundTrip ==
    [][(reached = "make_move" /\ last'.op = "make_move" /\ last'.err = "")
          => LET Same(g) == g.err = "" /\ g.move = last'.move
             IN  Same(get_move_from_san(This, last'.info.san))]_vars

\* s is a non-empty suffix of line.
IsSuffix(s, line) ==
    /\ s # <<>>
    /\ Len(s) <= Len(line)
    /\ s = SubSeq(line, Len(line) - Len(s) + 1, Len(line))

\* C12: from the initial position every make_move_from_san call of the line
\* e4 e5 Qh5 Nc6 Bc4 Nf6 Qxf7 succeeds, and the position after the last one is
\* checkmate with an empty legal-move set.
C12_ScholarsMate ==
    [][IsSuffix(script, SanScholar)
          => /\ last'.err = ""
             /\ Len(script) = 1 => /\ is_checkmate(ThisNext)
                                   /\ Len(LegalMoves(ThisNext)) = 0
                                   /\ Legal_len(ThisNext, LegalMoveGenerator).result = 0]_vars

\* C12 witness: the line has been played to its end, Qxf7 was parsed as the
\* queen's capture h5xf7 and the position is checkmate.
C12_Witness ==
    /\ last.op = "make_move_from_san" /\ last.err = ""
    /\ last.str = <<"Q", "x", "f", "7">>
    /\ last.move = Move(Square(4, 7), Square(6, 5))
    /\ script = <<>> /\ calls = 0
    /\ is_checkmate(This)

\* The squares (as 0x88 indices) of p holding one of symbols.
SquaresOf(p, symbols) ==
    {i \in 0..127 : ~Has0x88(i) /\ p.board[i] \in symbols}

\* The colour of a square of the chess board: a1 is dark.
DarkSquare(i) ==
    (Square_rank(from_x88_index(i)) + Square_file(from_x88_index(i))) % 2 = 0

\* C13: with exactly one king per side, is_insufficient_material is true iff
\* the material is K v K, K+N v K, K+B v K, or kings and bishops only with all
\* bishops on squares of one colour; it is false with a pawn, rook or queen.
C13_InsufficientMaterial ==
    LET knights == SquaresOf(This, {"n", "N"})
        bishops == SquaresOf(This, {"b", "B"})
        heavy == SquaresOf(This, {"p", "P", "r", "R", "q", "Q"})
        rule == /\ heavy = {}
                /\ \/ Cardinality(knights) + Cardinality(bishops) <= 1
                   \/ /\ knights = {}
                      /\ \/ \A i \in bishops : DarkSquare(i)
                         \/ \A i \in bishops : ~DarkSquare(i)
    IN  (Cardinality(SquaresOf(This, {"K"})) = 1
            /\ Cardinality(SquaresOf(This, {"k"})) = 1)
        => (is_insufficient_material(This) <=> rule)

\* The table indices of the components the hash is to depend on: a piece p P
\* n N b B r R q Q k K on (rank, file) selects 64 * piece + 8 * rank + file,
\* the castling rights select 768..771, the en-passant file 772 + file when a
\* pawn of the side to move stands beside the pawn that has just advanced two
\* squares, and white to move selects 780.
HashTermsByRule(p) ==
    LET order == <<"p", "P", "n", "N", "b", "B", "r", "R", "q", "Q", "k", "K">>
        ep_square == get_ep_square(p)
        pawn_rank == IF p.turn = "b" THEN 3 ELSE 4
        Capturer(file) ==
            /\ file \in 0..7
            /\ get(p, Square(pawn_rank, file)) = from_color_and_type(p.turn, "p")
    IN  {64 * IndexOf(order, get(p, sq)) + sq :
             sq \in {s \in 0..63 : Piece_is_valid(get(p, s))}}
        \cup (IF p.white_castle_kingside THEN {768} ELSE {})
        \cup (IF p.white_castle_queenside THEN {769} ELSE {})
        \cup (IF p.black_castle_kingside THEN {770} ELSE {})
        \cup (IF p.black_castle_queenside THEN {771} ELSE {})
        \cup (IF /\ Square_is_valid(ep_square)
                 /\ \/ Capturer(Square_file(ep_square) - 1)
                    \/ Capturer(Square_file(ep_square) + 1)
              THEN {772 + Square_file(ep_square)} ELSE {})
        \cup (IF p.turn = "w" THEN {780} ELSE {})

\* Limb k, from bit b upwards, of the XOR of the table entries with the
\* indices terms.
RECURSIVE XorLimb(_, _, _)
XorLimb(terms, k, b) ==
    IF b = 16 THEN 0
    ELSE LET ones == {t \in terms :
                         (POLYGLOT_RANDOM_ARRAY[t + 1][k] \div (2 ^ b)) % 2 = 1}
         IN  (IF Cardinality(ones) % 2 = 1 THEN 2 ^ b ELSE 0)
             + XorLimb(terms, k, b + 1)

\* The XOR of the table entries with the indices terms.
XorOfTerms(terms) ==
    <<XorLimb(terms, 1, 0), XorLimb(terms, 2, 0),
      XorLimb(terms, 3, 0), XorLimb(terms, 4, 0)>>

\* C14: the hash is the XOR selected by board, turn, castling rights and the
\* real en-passant square alone (the en-passant term present exactly when a
\* pawn of the side to move can capture onto ep_square), whatever half_moves,
\* ply, the stored ep_file or the moves played before.
C14_HashComponents ==
    last.op = "__hash__" => last.num = XorOfTerms(HashTermsByRule(This))

\* C15: the hash of the initial position is 0x463B96181691FC9C, the XOR of
\* the entries of its 32 pieces, of 768..771 and of 780.
C15_StartHash ==
    (last.op = "__hash__" /\ This = reset)
        => /\ last.num = <<17979, 38424, 5777, 64668>>
           /\ last.num = XorOfTerms(HashTermsByRule(This))
           /\ Cardinality(HashTermsByRule(This)) = 32 + 4 + 1

\* C15 witness: the initial position has been hashed, in a run in which a
\* setter (set_fen, set_half_moves or set_ply) had been called before.
C15_Witness ==
    /\ last.op = "__hash__" /\ This = reset
    /\ reached = "any"
    /\ last.num = <<17979, 38424, 5777, 64668>>

\* The moves ms keep the order claimed for position p: sources ascending,
\* a pawn's pushes before its captures, promotions in runs b, n, r, q.
InGenerationOrder(p, ms) ==
    LET IsPush(m) == Square_file(m.target) = Square_file(m.source)
        Variant(i, j, letter) ==
            /\ j \in 1..Len(ms)
            /\ ms[j] = MoveP(ms[i].source, ms[i].target, letter)
    IN  /\ \A i \in 1..Len(ms) : ms[i].source \in 0..63
        /\ \A i \in 1..Len(ms) - 1 : ms[i].source <= ms[i + 1].source
        /\ \A i, j \in 1..Len(ms) :
              (/\ i < j
               /\ ms[i].source = ms[j].source
               /\ Piece_type(get(p, ms[i].source)) = "p"
               /\ IsPush(ms[j])) => IsPush(ms[i])
        /\ \A i \in 1..Len(ms) :
              CASE ms[i].promotion = "b" ->
                       Variant(i, i + 1, "n") /\ Variant(i, i + 2, "r")
                                              /\ Variant(i, i + 3, "q")
                [] ms[i].promotion = "n" -> Variant(i, i - 1, "b")
                [] ms[i].promotion = "r" -> Variant(i, i - 1, "n")
                [] ms[i].promotion = "q" -> Variant(i, i - 1, "r")
                [] OTHER -> ms[i].promotion = NullSymbol

UciWellFormed(uci) ==
    /\ Len(uci) \in {4, 5}
    /\ SquareOfName(SubSeq(uci, 1, 2)).err = ""
    /\ SquareOfName(SubSeq(uci, 3, 4)).err = ""
    /\ Len(uci) = 5 => uci[5] \in {"n", "b", "r", "q"}

\* C17: Move.from_uci succeeds on every string of two square names with an
\* optional promotion letter n, b, r, q, a string of four characters giving
\* a move without promotion; it fails with invalid_argument("uci") on any
\* other length or promotion letter; uci() of the move built gives the
\* string back.
C17_UciRoundTrip ==
    [][/\ last'.op = "from_uci" =>
             /\ UciWellFormed(last'.str) =>
                    /\ last'.err = ""
                    /\ Len(last'.str) = 4 => last'.move.promotion = NullSymbol
             /\ (\/ Len(last'.str) \notin {4, 5}
                 \/ /\ Len(last'.str) = 5
                    /\ SquareOfName(SubSeq(last'.str, 1, 2)).err = ""
                    /\ SquareOfName(SubSeq(last'.str, 3, 4)).err = ""
                    /\ last'.str[5] \notin {"n", "b", "r", "q"})
                => last'.err = "uci"
       /\ (last.op = "from_uci" /\ last'.op = "uci") => last'.str = last.str
      ]_vars

\* The rook's corner a castling king move goes with.
CastlingRookSquare(move) ==
    Square(Square_rank(move.source), IF Square_file(move.target) = 6 THEN 7 ELSE 0)

\* The position's king stands on the move's source and the move takes it
\* two files along its back rank from the e-file.
IsCastlingMove(p, move) ==
    /\ move \in { Move(Square(0, 4), Square(0, 6)), Move(Square(0, 4), Square(0, 2)),
                   Move(Square(7, 4), Square(7, 6)), Move(Square(7, 4), Square(7, 2)) }
    /\ get(p, move.source) = (IF Square_rank(move.source) = 0 THEN "K" ELSE "k")

\* C18: an entry built from a position and a castling move of its king
\* stores the move to the rook's square (e1h1, e1a1, e8h8, e8a8) in the
\* packed layout; move() on an entry holding such a packed move returns the
\* king's two-file move.
C18_BookCastling ==
    /\ (last.op = "PolyglotOpeningBookEntry" /\ IsCastlingMove(This, last.move))
          => last.num.m_move
                 = PackedMove(last.move.source, CastlingRookSquare(last.move), 0)
    /\ last.op = "move" =>
          \A king \in { Move(Square(0, 4), Square(0, 6)), Move(Square(0, 4), Square(0, 2)),
                         Move(Square(7, 4), Square(7, 6)), Move(Square(7, 4), Square(7, 2)) } :
              last.num.m_move = PackedMove(king.source, CastlingRookSquare(king), 0)
                  => last.err = "" /\ last.move = king

\* The move takes the king of the side to move two files along its rank.
IsKingTwoFiles(p, move) ==
    /\ get(p, move.source) = from_color_and_type(p.turn, "k")
    /\ Square_rank(move.source) = Square_rank(move.target)
    /\ Square_file(move.target) - Square_file(move.source) \in {2, -2}

\* C19: while the side to move is in check the legal moves contain no
\* castling, and no successful make_move castles.
C19_NoCastlingOutOfCheck ==
    [][is_check(This) =>
          /\ \A move \in SeqToSet(LegalMoves(This)) : ~IsKingTwoFiles(This, move)
          /\ (last'.op = "make_move" /\ last'.err = "")
                => /\ ~last'.info.is_kingside_castle
                   /\ ~last'.info.is_queenside_castle
                   /\ ~IsKingTwoFiles(This, last'.move)
      ]_vars

\* C20: in a game played from the initial position, a successful make_move
\* of a king by two files moves the mover's own rook from the corner to the
\* square the king passed, leaves the corner empty and the king on the g-
\* or c-file, sets exactly one of the two castling flags and neither moves
\* nor removes a piece of the opponent.
C20_CastlingMovesOwnRook ==
    [][(/\ reached = "make_move"
        /\ last'.op = "make_move" /\ last'.err = ""
        /\ IsKingTwoFiles(This, last'.move))
          => LET m == last'.move
                 backrank == Square_rank(m.source)
                 kingside == Square_file(m.target) > Square_file(m.source)
                 corner == Square(backrank, IF kingside THEN 7 ELSE 0)
                 passed == Square(backrank, IF kingside THEN 5 ELSE 3)
                 rook == from_color_and_type(m_turn, "r")
             IN  /\ backrank = (IF m_turn = "b" THEN 7 ELSE 0)
                 /\ get(This, corner) = rook
                 /\ get(ThisNext, corner) = NullSymbol
                 /\ get(ThisNext, passed) = rook
                 /\ get(ThisNext, m.target) = from_color_and_type(m_turn, "k")
                 /\ Square_file(m.target) = (IF kingside THEN 6 ELSE 2)
                 /\ last'.info.is_kingside_castle = kingside
                 /\ last'.info.is_queenside_castle = ~kingside
                 /\ \A square \in 0..63 :
                       (/\ Piece_is_valid(get(This, square))
                        /\ Piece_color(get(This, square)) # m_turn)
                          => get(ThisNext, square) = get(This, square)]_vars

\* The number of pieces of `color` on the board of p.
PiecesOf(p, color) ==
    Cardinality({square \in 0..63 : /\ Piece_is_valid(get(p, square))
                                    /\ Piece_color(get(p, square)) = color})

\* C21: every successful make_move flips the turn; the move number grows by
\* one on a move of Black and stays on a move of White; the half-move clock
\* becomes 0 when a pawn moved or a piece of the opponent left the board and
\* grows by one otherwise.
C21_TurnAndCounters ==
    [][(last'.op = "make_move" /\ last'.err = "")
          => /\ m_turn' = opposite_color(m_turn)
             /\ m_turn' # m_turn
             /\ m_ply' = (IF m_turn = "b" THEN m_ply + 1 ELSE m_ply)
             /\ m_half_moves' =
                   (IF \/ Piece_type(get(This, last'.move.source)) = "p"
                       \/ PiecesOf(ThisNext, m_turn') < PiecesOf(This, m_turn')
                    THEN 0 ELSE m_half_moves + 1)]_vars

\* C21 witness: Black has just moved a piece without capturing, at least
\* one quiet move after another: the clock stands above 1 and the move
\* number has grown.
C21_Witness ==
    /\ last.op = "make_move" /\ last.err = ""
    /\ m_turn = "w"
    /\ Piece_type(last.info.piece) # "p"
    /\ ~Piece_is_valid(last.info.captured)
    /\ m_half_moves >= 2
    /\ m_ply >= 2

\* C22: after every successful make_move the en-passant file is the file
\* letter of the moved pawn when a pawn advanced two ranks and is empty after
\* every other move, whatever it was before the move.
C22_EpFileAfterMove ==
    [][(last'.op = "make_move" /\ last'.err = "")
          => m_ep_file' =
                (IF /\ Piece_type(get(This, last'.move.source)) = "p"
                    /\ Square_file(last'.move.target) = Square_file(last'.move.source)
                    /\ (Square_rank(last'.move.target) - Square_rank(last'.move.source))
                           \in {2, -2}
                 THEN FileNames[Square_file(last'.move.source) + 1]
                 ELSE "")]_vars

\* C22 witness: after 1. e4 e5 White has moved a piece: the file set by
\* Black's two-rank advance is gone.
C22_Witness ==
    /\ last.op = "make_move" /\ last.err = ""
    /\ Piece_type(last.info.piece) # "p"
    /\ get(This, Square(3, 4)) = "P" /\ get(This, Square(4, 4)) = "p"
    /\ m_turn = "b" /\ m_ply = 2
    /\ m_ep_file = ""

\* The squares of the board of p holding `symbol`.
SquaresHolding(p, symbol) == {square \in 0..63 : get(p, square) = symbol}

\* C26: every position reached from the initial position by successful
\* make_move calls holds exactly one white king and exactly one black king.
C26_OneKingEach ==
    reached = "make_move"
        => /\ Cardinality(SquaresHolding(This, "K")) = 1
           /\ Cardinality(SquaresHolding(This, "k")) = 1

\* C26 witness: White has castled on the king's side in a game from the
\* initial position; king and rook stand on g1 and f1.
C26_Witness ==
    /\ reached = "make_move"
    /\ last.op = "make_move" /\ last.err = ""
    /\ last.info.is_kingside_castle
    /\ SquaresHolding(This, "K") = {Square(0, 6)}
    /\ get(This, Square(0, 5)) = "R"

\* C23: on a position with one king per side the views of the legal-move
\* generator agree: every __len__ call returns the number of moves a fresh
\* iteration yields, __nonzero__ returns TRUE exactly when that number is
\* positive, and __contains__(m) returns TRUE exactly when the iteration
\* yields m.
C23_LegalViewsAgree ==
    [][/\ last'.op = "lg.__len__"
          => /\ last'.err = ""
             /\ last'.num.count = Len(LegalMoves(This))
       /\ last'.op = "lg.__nonzero__"
          => /\ last'.err = ""
             /\ last'.num.flag = (Len(LegalMoves(This)) > 0)
       /\ last'.op = "lg.__contains__"
          => /\ last'.err = ""
             /\ last'.num.flag = (last'.move \in SeqToSet(LegalMoves(This)))]_vars

\* The moves of `moves` are pairwise different.
NoDuplicates(moves) ==
    \A i, j \in 1..Len(moves) : moves[i] = moves[j] => i = j

\* The sequence a caller gets from the generator object g of the given kind
\* by calling __iter__ and then next() while has_more().
IterateAgain(p, g) ==
    IF g.kind = "pl" THEN DrainPseudo(p, Pseudo_iter(g.pl))
    ELSE DrainLegal(p, Legal_iter(g.lg))

\* C24: whatever __len__, __nonzero__, __contains__, has_more and next calls
\* were made on a generator, __iter__ followed by next() while has_more()
\* yields the sequence a freshly constructed generator yields: the same
\* moves in the same order, none twice.
C24_IterateAfterQueries ==
    /\ IterateAgain(This, last.num)
          = (IF last.num.kind = "pl" THEN PseudoLegalMoves(This) ELSE LegalMoves(This))
    /\ NoDuplicates(IterateAgain(This, last.num))

\* C24 witness: a legal generator that was partly iterated, asked for its
\* length and then for a membership has moves left in its queue, on a
\* position with legal moves.
C24_Witness ==
    /\ last.num.kind = "lg"
    /\ last.op = "lg.__contains__"
    /\ last.num.yielded # <<>>
    /\ last.num.lg.len > 0
    /\ last.num.lg.pl.cache # <<>>
    /\ Len(IterateAgain(This, last.num)) > 1

\* `prefix` is an initial part of `moves`.
IsPrefix(prefix, moves) ==
    /\ Len(prefix) <= Len(moves)
    /\ \A i \in 1..Len(prefix) : prefix[i] = moves[i]

\* C25: after __iter__ on a legal generator, under any interleaving of
\* has_more() and next() calls, the moves next() has returned are the first
\* legal moves in generation order, each once; has_more() neither rewinds
\* nor advances the sequence.  (Stated for positions on which the validation
\* of every pseudo-legal move returns.)
C25_HasMoreIsPure ==
    (/\ last.num.kind = "lg" /\ last.num.iterating
     /\ \A move \in SeqToSet(PseudoLegalMoves(This)) : ~would_be_valid_throws(This, move))
        => /\ IsPrefix(last.num.yielded, LegalMoves(This))
           /\ NoDuplicates(last.num.yielded)

\* C27: on a position accepted by set_fen every move the pseudo-legal
\* generator yields starts on a square holding a piece of the side to move
\* and ends on a square not holding one, and the unvalidated applier accepts
\* it.
C27_PseudoLegalSourceOccupied ==
    (last.op = "pl.next" /\ last.err = "")
        => /\ Piece_is_valid(get(This, last.move.source))
           /\ Piece_color(get(This, last.move.source)) = m_turn
           /\ ~(/\ Piece_is_valid(get(This, last.move.target))
                 /\ Piece_color(get(This, last.move.target)) = m_turn)
           /\ make_unvalidated_move_fast(This, last.move).err = ""

\* The slider's walk from the x88 index j towards the target by steps of
\* `offset` arrives within n steps without visiting an index off the board.
RECURSIVE WalkArrives(_, _, _, _)
WalkArrives(j, offset, target_x88, n) ==
    IF j = target_x88 THEN TRUE
    ELSE IF n = 0 \/ offset = 0 \/ j < 0 \/ j > 127 \/ (j \div 8) % 2 = 1 THEN FALSE
    ELSE WalkArrives(j + offset, offset, target_x88, n - 1)

\* The piece on `source` is a slider whose bit is set in the attack mask for
\* (source, target).
SliderTest(p, source, target) ==
    /\ Piece_type(get(p, source)) \in {"b", "r", "q"}
    /\ BitSet(attacks[x88_index(source) - x88_index(target) + 120],
              PieceShift(Piece_type(get(p, source))))

\* The squares holding a piece of the opponent of the side to move.
OpponentSquares(p) ==
    {t \in 0..63 : /\ Piece_is_valid(get(p, t))
                   /\ Piece_color(get(p, t)) = opposite_color(p.turn)}

\* The (source, target) pairs of `moves` whose target is in `targets`.
MovePairs(moves, targets) ==
    {<<moves[i].source, moves[i].target>> :
        i \in {k \in 1..Len(moves) : moves[k].target \in targets}}

\* The (source, target) pairs with source in Attackers(p, color, target).
AttackPairs(p, color, targets) ==
    {pair \in (0..63) \X targets : Attacker_contains(p, color, pair[2], pair[1])}

\* The squares holding a bishop, a rook or a queen.
SliderSquares(p) == {source \in 0..63 : Piece_type(get(p, source)) \in {"b", "r", "q"}}

\* C28: for the side to move and every square held by the opponent, the
\* attackers of the square are the sources of the pseudo-legal moves onto
\* it; and every slider test walks from the source to the target in at most
\* seven steps over squares of the board.
C28_AttackersMatchCaptures ==
    /\ AttackPairs(This, m_turn, OpponentSquares(This))
          = MovePairs(PseudoLegalMoves(This), OpponentSquares(This))
    /\ \A source \in SliderSquares(This) : \A t \in 0..63 :
          SliderTest(This, source, t)
             => WalkArrives(x88_index(source)
                               + rays[x88_index(source) - x88_index(t) + 120],
                            rays[x88_index(source) - x88_index(t) + 120],
                            x88_index(t), 6)

\* C28 witness: in a game the side to move attacks a piece of the opponent
\* with a slider from a distance, and another slider of its own is blocked
\* on the way to a piece of the opponent.
C28_Witness ==
    /\ last.op = "make_move" /\ last.err = ""
    /\ \E t \in OpponentSquares(This) : \E source \in 0..63 :
          /\ SliderTest(This, source, t)
          /\ Attacker_contains(This, m_turn, t, source)
          /\ x88_index(source) + rays[x88_index(source) - x88_index(t) + 120]
                # x88_index(t)
    /\ \E t \in OpponentSquares(This) : \E source \in 0..63 :
          /\ SliderTest(This, source, t)
          /\ Piece_color(get(This, source)) = m_turn
          /\ ~Attacker_contains(This, m_turn, t, source)

\* C29: a bishop stays on squares of one colour as reported by is_dark():
\* for every bishop move made, is_dark(source) = is_dark(target).
C29_BishopKeepsSquareColour ==
    (/\ last.op = "make_move" /\ last.err = ""
     /\ Piece_type(last.info.piece) = "b")
        => Square_is_dark(last.move.source) = Square_is_dark(last.move.target)

\* The slots of the 0x88 board that are not squares.
IsSentinel(i) == (i \div 8) % 2 = 1

\* C30: the sentinel slots of the board hold the null piece in every state,
\* and hash(position), through get_real_ep_square, reads the board only at
\* indices within 0..127 that are squares.
C30_BoardAccessOnSquares ==
    /\ \A i \in 0..127 : IsSentinel(i) => m_board[i] = NullSymbol
    /\ last.op = "__hash__"
          => \A reads \in get_real_ep_square_reads(This) : \A i \in reads :
                i \in 0..127 /\ ~IsSentinel(i)

====
